---- MODULE Spec2Model ----
(***************************************************************************)
(* Debrid cache resolution and quota engine of stremio-addon-debrid-search *)
(* (Real-Debrid provider module and the Mongo cache store).                *)
(*                                                                         *)
(* The module holds several specifications over one set of variables; each *)
(* specification drives one part of the program and leaves the variables   *)
(* of the other parts at their idle values:                                *)
(*   SpecVerify   rdHandler.liveCheckHash, one candidate after the other   *)
(*   SpecGate     the personal high-res quota gate, as a function          *)
(*   SpecSearch   one searchRealDebridTorrents call with its background    *)
(*                cleanup (SpecSearchFair: the same with the event loop's  *)
(*                fairness)                                                *)
(*   SpecResolve  one resolveStreamUrl call through resolveMagnetUrl and   *)
(*                unrestrictUrl                                            *)
(*   SpecStore    concurrent upsertCachedMagnet / upsertCachedMagnets      *)
(*                calls against the collection of mongo-cache.js           *)
(*   SpecQuery    getCachedHashes, getCachedRecord and getReleaseCounts    *)
(*                against a filled collection, with the TTL monitor and    *)
(*                one more write call                                      *)
(*   SpecPack     rdHandler.batchCheckSeasonPacks, one pack after the other*)
(***************************************************************************)
EXTENDS Integers, Sequences, FiniteSets, TLC

VARIABLES
    lc,                  \* the running liveCheckHash activation (locals, position, calls issued)
    lcRuns,              \* liveCheckHash activations started so far
    torrentIdsToDelete,  \* searchRealDebridTorrents: const torrentIdsToDelete = new Set()
    immediates,          \* callbacks queued with setImmediate, not yet run
    mongoEnabled,        \* mongoCache.isEnabled()
    nextTorrentId,       \* the id the provider assigns to the next added magnet
    gateEval,            \* SpecGate: the inputs of the quota gate and its value
    srch,                \* the running searchRealDebridTorrents activation
    scraperCalls,        \* producer (scraper) invocations issued by the search
    globalAbortController, \* let globalAbortController = null (0), else the owning search
    cleanup,             \* the running cleanupTemporaryTorrents activation
    deleteLog,           \* RD.torrents.delete calls issued, in order
    rs,                  \* the running resolveStreamUrl activation
    documents,           \* mongo-cache.js: the documents of the collection
    initPromise,         \* mongo-cache.js: let initPromise = null, and how it settled
    writers,             \* the upsertCachedMagnet(s) activations, one per concurrent caller
    applied,             \* the writes the server has applied, in order
    storeCalls,          \* store operations called so far
    clock,               \* Date.now(), in days: every reading is later than the one before
    reader,              \* the running read of the store (getCachedHashes, ...)
    queries,             \* reads of the store called so far
    pack,                \* the running rdHandler.batchCheckSeasonPacks activation
    aborted,             \* the controllers whose abort() has been called
    other,               \* another searchRealDebridTorrents activation of the process
    added,               \* the ids the provider returned to add-magnet calls, and to whom
    mongo                \* mongo-cache.js: the initialization behind initPromise, and closeMongo

verifyVars ==
    <<lc, lcRuns, torrentIdsToDelete, immediates, mongoEnabled, nextTorrentId, added>>

searchVars == <<srch, scraperCalls, globalAbortController, cleanup, deleteLog>>

resolveVars == <<rs>>

queryVars == <<reader, queries>>

packVars == <<pack>>

abortVars == <<aborted, other>>

storeVars ==
    <<documents, initPromise, mongo, writers, applied, storeCalls, clock, queryVars>>

vars == <<verifyVars, gateEval, searchVars, resolveVars, storeVars, packVars, abortVars>>

(***************************************************************************)
(* Bounds of the model.                                                    *)
(***************************************************************************)
MaxFiles == 2       \* files in one provider file listing
MaxLiveChecks == 2  \* liveCheckHash activations in one behaviour of SpecVerify
MaxGateFiles == 4   \* personal files given to the quota gate in SpecGate
MaxPersonal == 2    \* personal files of the release in SpecSearch
MaxExternal == 2    \* candidates the producers return in SpecSearch
MaxStoreCalls == 2  \* store operations called in one behaviour of SpecStore
MaxQueries == 1     \* reads of the store called in one behaviour of SpecQuery
MaxClock == 1       \* days that pass in one behaviour of SpecQuery
MaxPackCalls == 2   \* calls of batchCheckSeasonPacks in one search of SpecPacks
MaxPackHashes == 5  \* pack hashes handed to batchCheckSeasonPacks in one search of SpecPacks
MaxPackFiles == 2   \* files in the listing of one inspected pack
MaxScraped == 3     \* candidates handed to combineAndMarkResults in SpecCombine
MaxTopCandidates == 7 \* candidates the producers return in SpecTopPass
MaxForeignAdds == 1  \* add-magnet calls from outside the search in SpecOwnIds
MaxSearches == 2    \* searches that read the store's counts in one behaviour of SpecRepeat
MaxCloses == 2      \* calls of closeMongo in one behaviour of SpecInit

(***************************************************************************)
(* Strings.  A string is a sequence of one-character strings, so that      *)
(* toLowerCase and endsWith are computed character by character.           *)
(***************************************************************************)
UpperToLower ==
    ("A" :> "a") @@ ("B" :> "b") @@ ("D" :> "d") @@ ("E" :> "e") @@ ("K" :> "k") @@
    ("M" :> "m") @@ ("R" :> "r") @@ ("V" :> "v") @@ ("X" :> "x")

LowerChar(c) == IF c \in DOMAIN UpperToLower THEN UpperToLower[c] ELSE c

toLowerCase(s) == [i \in DOMAIN s |-> LowerChar(s[i])]

endsWith(s, suffix) ==
    /\ Len(suffix) <= Len(s)
    /\ SubSeq(s, Len(s) - Len(suffix) + 1, Len(s)) = suffix

\* A value the provider left out (undefined); reading a property of it throws TypeError.
Undefined == <<"undefined">>

(***************************************************************************)
(* Provider file listings.                                                 *)
(***************************************************************************)
MIN_VIDEO_BYTES == 50 * 1024 * 1024

PathMkv == <<"a", ".", "m", "k", "v">>
PathMkvUpper == <<"A", ".", "M", "K", "V">>
PathRar == <<"a", ".", "r", "a", "r">>
PathRarUpper == <<"A", ".", "R", "A", "R">>
PathExeMixed == <<"a", ".", "E", "x", "e">>
PathNfo == <<"a", ".", "n", "f", "o">>

\* The listing entries the provider reports: videos above, just above and exactly at
\* the minimum size (1.2 GiB, 50 MiB + 1, 50 MiB), junk in several letter cases, a text
\* file, and an entry whose path the provider left out.
ProviderFiles ==
    { [id |-> 1, path |-> PathMkv, bytes |-> 1288490188],
      [id |-> 2, path |-> PathMkvUpper, bytes |-> MIN_VIDEO_BYTES + 1],
      [id |-> 3, path |-> PathMkv, bytes |-> MIN_VIDEO_BYTES],
      [id |-> 4, path |-> PathRar, bytes |-> 1288490188],
      [id |-> 5, path |-> PathRarUpper, bytes |-> 0],
      [id |-> 6, path |-> PathExeMixed, bytes |-> MIN_VIDEO_BYTES + 1],
      [id |-> 7, path |-> PathNfo, bytes |-> 0],
      [id |-> 8, path |-> Undefined, bytes |-> MIN_VIDEO_BYTES + 1] }

RECURSIVE SeqsUpTo(_, _)
SeqsUpTo(S, n) ==
    IF n = 0 THEN {<<>>}
    ELSE LET shorter == SeqsUpTo(S, n - 1)
         IN shorter \cup {Append(q, x) : q \in {r \in shorter : Len(r) = n - 1}, x \in S}

FileListings == SeqsUpTo(ProviderFiles, MaxFiles)

ProviderStatuses == {"downloaded", "finished", "magnet_error", "downloading"}

\* What RD.torrents.info(...).catch(() => null) resolves to, seen through torrentInfo?.data:
\* null (rejected or no data), a status with a file listing, or data with no status at all.
InfoResponses ==
    {[data |-> FALSE, status |-> "", files |-> <<>>]}
        \cup [data : {TRUE}, status : ProviderStatuses \cup {""}, files : FileListings]

(***************************************************************************)
(* rdHandler.liveCheckHash and what it calls.                              *)
(***************************************************************************)
JUNK_EXTENSIONS ==
    { <<".", "i", "s", "o">>, <<".", "e", "x", "e">>, <<".", "z", "i", "p">>,
      <<".", "r", "a", "r">>, <<".", "7", "z">>, <<".", "s", "c", "r">> }

VIDEO_EXTENSIONS == { <<".", "m", "k", "v">>, <<".", "m", "p", "4">>, <<".", "a", "v", "i">> }

TERMINAL_SUCCESS == {"downloaded", "finished"}

isTerminalSuccess_AnyKnownStatus(status) == status # "unknown"

\* ['downloaded', 'finished'].includes(status)
isTerminalSuccess(status) == status \in TERMINAL_SUCCESS

isJunkPath_CaseSensitive(path) == \E ext \in JUNK_EXTENSIONS : endsWith(path, ext)

\* JUNK_EXTENSIONS.some(ext => f.path.toLowerCase().endsWith(ext))
isJunkPath(path) == \E ext \in JUNK_EXTENSIONS : endsWith(toLowerCase(path), ext)

\* files.some(f => JUNK_EXTENSIONS.some(...)): the scan runs in listing order and stops
\* at the first junk file; f.path.toLowerCase() throws on an entry without a path that
\* the scan reaches.
hasJunk(files) ==
    IF \E i \in DOMAIN files :
           /\ files[i].path = Undefined
           /\ \A j \in 1..(i - 1) : ~isJunkPath(files[j].path)
    THEN "throws"
    ELSE IF \E i \in DOMAIN files : isJunkPath(files[i].path) THEN "junk" ELSE "clean"

\* torrentUtils.isValidVideo(path, bytes, minSize): a video extension and a size above
\* the minimum.  An entry without a path is only ever passed to it after hasJunk found
\* junk, where liveCheckHash returns false whatever isValidVideo answers or throws.
isValidVideo(path, bytes, minSize) ==
    /\ path # Undefined
    /\ \E ext \in VIDEO_EXTENSIONS : endsWith(toLowerCase(path), ext)
    /\ bytes > minSize

hasVideo(files) ==
    \E i \in DOMAIN files : isValidVideo(files[i].path, files[i].bytes, MIN_VIDEO_BYTES)

largestVideo_First(files) ==
    LET valid == {i \in DOMAIN files :
                     isValidVideo(files[i].path, files[i].bytes, MIN_VIDEO_BYTES)}
    IN files[CHOOSE i \in valid : \A j \in valid : i <= j]

NoFile == [id |-> 0, path |-> <<>>, bytes |-> 0]

\* files.filter(isValidVideo).sort((a,b) => (b.bytes||0)-(a.bytes||0))[0] || null
\* (the sort is stable: among equal sizes the first of the listing).
largestVideo(files) ==
    LET valid == {i \in DOMAIN files :
                     isValidVideo(files[i].path, files[i].bytes, MIN_VIDEO_BYTES)}
    IN IF valid = {} THEN NoFile
       ELSE files[CHOOSE i \in valid :
                      \A j \in valid : \/ files[j].bytes < files[i].bytes
                                       \/ (files[j].bytes = files[i].bytes /\ i <= j)]

\* the service name 'realdebrid'
REALDEBRID == <<"r", "e", "a", "l", "d", "e", "b", "r", "i", "d">>

\* addHashToMongo(hash, fileName, size, data): nothing without a hash or with the store
\* disabled; otherwise one upsertCachedMagnet queued with setImmediate.
addHashToMongo(queue, enabled, hash, fileName, size) ==
    IF hash = <<>> \/ ~enabled THEN queue
    ELSE Append(queue, [op |-> "upsertCachedMagnet",
                        records |-> << [service |-> REALDEBRID,
                                        hash |-> toLowerCase(hash),
                                        fileName |-> fileName,
                                        size |-> size,
                                        releaseKey |-> <<>>,
                                        category |-> "",
                                        resolution |-> ""] >>])

\* catch (e) { console.log(...) } return false;
liveCheckOnException_Rethrow == "threw"
liveCheckOnException == "false"

\* The candidates' infohashes, as producers spell them.
HashAb == <<"a", "b">>
HashAbUpper == <<"A", "B">>
HashBe == <<"b", "e">>
CandidateHashes == {HashAb, HashAbUpper, HashBe}

lcIdle ==
    [pc |-> "idle", hash |-> <<>>, torrentId |-> 0, status |-> "none", files |-> <<>>,
     ret |-> "none", threw |-> "none", addCalls |-> 0, selectCalls |-> 0,
     infoCalls |-> 0, inspected |-> FALSE, writes |-> 0, addResponse |-> "none"]

\* liveCheckHash: async (hash) => { let torrentId; try { ...
liveCheckBegin(hash) == [lcIdle EXCEPT !.pc = "addMagnet", !.hash = hash]

\* addResponse = await rdCall(() => RD.torrents.addMagnet(magnet).catch(() => null)):
\* the provider answers with an id, or with nothing (a rejected call becomes null), or
\* the call gate itself throws.
hasTorrentId_Always(outcome) == TRUE

\* addResponse?.data?.id
hasTorrentId(outcome) == outcome = "id"

\* torrentId = addResponse.data.id: the provider answered an add-magnet call of the
\* given caller (this search, a stream resolution, another search) with a new id.
returnedTo(addedSoFar, id, caller) == addedSoFar \cup {[id |-> id, by |-> caller]}

LcAddMagnet ==
    /\ lc.pc = "addMagnet"
    /\ \E outcome \in {"id", "empty", "throws"} :
         CASE outcome = "throws" ->
                /\ lc' = [lc EXCEPT !.pc = "done", !.ret = liveCheckOnException,
                                    !.threw = "addMagnet", !.addCalls = @ + 1,
                                    !.addResponse = outcome]
                /\ UNCHANGED <<torrentIdsToDelete, nextTorrentId, added>>
           [] outcome # "throws" /\ hasTorrentId(outcome) ->
                /\ lc' = [lc EXCEPT !.pc = "selectFiles", !.torrentId = nextTorrentId,
                                    !.addCalls = @ + 1, !.addResponse = outcome]
                /\ torrentIdsToDelete' = torrentIdsToDelete \cup {nextTorrentId}
                /\ nextTorrentId' = nextTorrentId + 1
                /\ added' = returnedTo(added, nextTorrentId, "search")
           [] outcome # "throws" /\ ~hasTorrentId(outcome) ->
                /\ lc' = [lc EXCEPT !.pc = "done", !.ret = "false", !.addCalls = @ + 1,
                                    !.addResponse = outcome]
                /\ UNCHANGED <<torrentIdsToDelete, nextTorrentId, added>>
    /\ UNCHANGED <<lcRuns, immediates, mongoEnabled>>

\* await rdCall(() => RD.torrents.selectFiles(torrentId, 'all'))
LcSelectFiles ==
    /\ lc.pc = "selectFiles"
    /\ \E outcome \in {"ok", "throws"} :
         lc' = IF outcome = "ok"
               THEN [lc EXCEPT !.pc = "info", !.selectCalls = @ + 1]
               ELSE [lc EXCEPT !.pc = "done", !.ret = liveCheckOnException,
                               !.threw = "selectFiles", !.selectCalls = @ + 1]
    /\ UNCHANGED <<lcRuns, torrentIdsToDelete, immediates, mongoEnabled, nextTorrentId, added>>

\* Lines 480-500: the classification of a terminal-success torrent, as the value
\* returned, the step that threw (if one did) and the setImmediate queue left behind.
\* The persistence block is its own try { ... } catch {}: an error thrown while
\* picking the largest video or inside addHashToMongo is dropped there.
liveCheckClassify(hash, files, queue, enabled, writeThrows) ==
    IF hasJunk(files) = "throws"
    THEN [ret |-> liveCheckOnException, threw |-> "inspect", queue |-> queue]
    ELSE IF ~hasVideo(files) THEN [ret |-> "false", threw |-> "none", queue |-> queue]
    ELSE IF hasJunk(files) = "junk" THEN [ret |-> "false", threw |-> "none", queue |-> queue]
    ELSE IF writeThrows THEN [ret |-> "true", threw |-> "cacheWrite", queue |-> queue]
    ELSE [ret |-> "true", threw |-> "none",
          queue |-> addHashToMongo(queue, enabled, hash, largestVideo(files).path,
                                   largestVideo(files).bytes)]

\* torrentInfo = await rdCall(() => RD.torrents.info(torrentId).catch(() => null)) and
\* everything after it up to the return.
LcInfoFrom(responses) ==
    /\ lc.pc = "info"
    /\ \/ \E r \in responses, writeThrows \in BOOLEAN :
            LET status == IF r.data /\ r.status # "" THEN r.status ELSE "unknown"
                files == IF r.data THEN r.files ELSE <<>>
                c == liveCheckClassify(lc.hash, files, immediates, mongoEnabled, writeThrows)
            IN IF ~isTerminalSuccess(status)
               THEN /\ lc' = [lc EXCEPT !.pc = "done", !.ret = "false", !.status = status,
                                        !.infoCalls = @ + 1]
                    /\ UNCHANGED immediates
               ELSE /\ lc' = [lc EXCEPT !.pc = "done", !.ret = c.ret, !.threw = c.threw,
                                        !.status = status, !.files = files,
                                        !.inspected = TRUE, !.infoCalls = @ + 1,
                                        !.writes = Len(c.queue) - Len(immediates)]
                    /\ immediates' = c.queue
       \/ /\ lc' = [lc EXCEPT !.pc = "done", !.ret = liveCheckOnException,
                               !.threw = "info", !.infoCalls = @ + 1]
          /\ UNCHANGED immediates
    /\ UNCHANGED <<lcRuns, torrentIdsToDelete, mongoEnabled, nextTorrentId, added>>

LcInfo == LcInfoFrom(InfoResponses)

liveCheckHash == LcAddMagnet \/ LcSelectFiles \/ LcInfo

(***************************************************************************)
(* SpecVerify: liveCheckHash called for one candidate after the other, as  *)
(* inspectAndFilterNonCached does, against every provider answer.          *)
(***************************************************************************)
VerifyCall ==
    /\ lc.pc \in {"idle", "done"}
    /\ lcRuns < MaxLiveChecks
    /\ \E hash \in CandidateHashes : lc' = liveCheckBegin(hash)
    /\ lcRuns' = lcRuns + 1
    /\ UNCHANGED <<torrentIdsToDelete, immediates, mongoEnabled, nextTorrentId, added, gateEval,
                   resolveVars, searchVars, storeVars, packVars, abortVars>>

IdleGate == gateEval = [evaluated |-> FALSE]

\* batchCheckSeasonPacks before it is called: const packResults = new Map(), and the
\* failedPackHashes set of the search.
packIdle ==
    [pc |-> "idle", hashes |-> <<>>, hash |-> <<>>, torrentId |-> 0, season |-> 0,
     episode |-> 0, inspectedCount |-> 0, listed |-> <<>>, packResults |-> <<>>,
     failedPackHashes |-> {}, inspected |-> <<>>, calls |-> 0]

IdlePack == pack = packIdle

srchIdle == [pc |-> "idle"]
cleanupIdle == [pc |-> "idle", rest |-> <<>>, current |-> 0, status |-> 0]

\* No resolveStreamUrl call under way.  null is the empty reference.
Null == [kind |-> "null"]
rsIdle ==
    [pc |-> "idle", url |-> Null, hash |-> <<>>, torrentId |-> 0, ref |-> Null,
     directLink |-> "", result |-> Null, outcome |-> "none", failed |-> {},
     listCalls |-> 0, addCalls |-> 0, infoCalls |-> 0, unrestrictCalls |-> 0,
     listing |-> <<>>, entry |-> "none", selectCalls |-> 0, magnetCalls |-> 0,
     unrestrictEntries |-> 0, alternativeCalls |-> 0]

IdleResolve == rs = rsIdle

\* The callers that use the store concurrently.
Writers == {"w1", "w2"}

writerIdle == [pc |-> "idle", kind |-> "none", records |-> <<>>, ops |-> <<>>,
               now |-> 0, failed |-> FALSE, ret |-> "none"]

\* The running read (getCachedHashes, getCachedRecord or getReleaseCounts): its
\* arguments, the time of the call, the collection as the server saw it when it
\* evaluated the query, and the value the call settled with.
readerIdle ==
    [pc |-> "idle", kind |-> "none", service |-> <<>>, given |-> FALSE, hashes |-> <<>>,
     releaseKey |-> <<>>, calledAt |-> 0, answered |-> FALSE, evalDocs |-> {},
     ret |-> [kind |-> "none"]]

\* let client = null; ... let initPromise = null: no initialization has run.  phase is
\* where the initialization behind initPromise stands ("import": at await
\* import('mongodb'); "connect": client.connect() called; "done": settled), opened the
\* client.connect() calls since closeMongo last reset the module, dropped the
\* initializations still at the import whose promise closeMongo has reset.
mongoIdle ==
    [phase |-> "none", opened |-> 0, dropped |-> 0, closing |-> FALSE, closes |-> 0]

\* The module state of mongo-cache.js at load, over an empty collection.
IdleStore ==
    /\ documents = {}
    /\ initPromise = "null"
    /\ mongo = mongoIdle
    /\ writers = [w \in Writers |-> writerIdle]
    /\ applied = <<>>
    /\ storeCalls = 0
    /\ clock = 0
    /\ reader = readerIdle
    /\ queries = 0

IdleSearch ==
    /\ srch = srchIdle
    /\ scraperCalls = 0
    /\ globalAbortController = 0
    /\ aborted = {}
    /\ other = "idle"
    /\ cleanup = cleanupIdle
    /\ deleteLog = <<>>

InitVerify ==
    /\ IdleGate
    /\ IdleSearch
    /\ IdleResolve
    /\ IdleStore
    /\ IdlePack
    /\ lc = lcIdle
    /\ lcRuns = 0
    /\ torrentIdsToDelete = {}
    /\ immediates = <<>>
    /\ mongoEnabled \in BOOLEAN
    /\ nextTorrentId = 1
    /\ added = {}

VerifyAddMagnet == LcAddMagnet /\ UNCHANGED <<gateEval, resolveVars, searchVars,
                                                storeVars, packVars, abortVars>>

VerifySelectFiles == LcSelectFiles /\ UNCHANGED <<gateEval, resolveVars, searchVars,
                                                  storeVars, packVars, abortVars>>

VerifyInfo == LcInfo /\ UNCHANGED <<gateEval, resolveVars, searchVars, storeVars,
                                    packVars, abortVars>>

NextVerify == VerifyCall \/ VerifyAddMagnet \/ VerifySelectFiles \/ VerifyInfo

SpecVerify == InitVerify /\ [][NextVerify]_vars

(***************************************************************************)
(* The quota model of searchRealDebridTorrents (lines 283-335).            *)
(***************************************************************************)
Categories == {"Remux", "BluRay", "WEB/WEB-DL", "BRRip/WEBRip", "Audio-Focused", "Other"}
Resolutions == {"2160p", "1080p", "720p", "other"}

HQ_CATEGORIES == {"Remux", "BluRay", "WEB/WEB-DL"}
HQ_RES == {"2160p", "1080p"}

\* An environment variable: <<>> when unset or not a number (parseInt gives NaN), <<n>>
\* when its text parses to the integer n.
\* parseInt(process.env.X, 10) || fallback: NaN and 0 are falsy.
parseIntOr(value, fallback) == IF value = <<>> \/ value[1] = 0 THEN fallback ELSE value[1]

\* rdDefaultMax and rdQualityLimits, from the environment.
rdQualityLimits(env) ==
    LET rdDefaultMax == parseIntOr(env.MAX_RESULTS_PER_QUALITY, 2)
    IN [cat \in Categories |->
           CASE cat = "Remux" -> parseIntOr(env.MAX_RESULTS_REMUX, rdDefaultMax)
             [] cat = "BluRay" -> parseIntOr(env.MAX_RESULTS_BLURAY, rdDefaultMax)
             [] cat = "WEB/WEB-DL" -> parseIntOr(env.MAX_RESULTS_WEBDL, rdDefaultMax)
             [] cat = "BRRip/WEBRip" -> parseIntOr(env.MAX_RESULTS_WEBRIP, 1)
             [] cat = "Audio-Focused" -> parseIntOr(env.MAX_RESULTS_AUDIO, 1)
             [] cat = "Other" -> parseIntOr(env.MAX_RESULTS_OTHER, 10)]

NoCounts == [cat \in Categories |-> [res \in Resolutions |-> 0]]

\* for (const file of enrichedPersonalFiles) { ... }: one increment per file that has a
\* category and a resolution.  A missing key of the nested object reads as 0.
RECURSIVE personalByCategoryResolution(_)
personalByCategoryResolution(files) ==
    IF files = <<>> THEN NoCounts
    ELSE LET before == personalByCategoryResolution(SubSeq(files, 1, Len(files) - 1))
             file == files[Len(files)]
         IN IF file.category = "" \/ file.resolution = "" THEN before
            ELSE [before EXCEPT ![file.category][file.resolution] = @ + 1]

personalHighResSatisfied_AnyResolution(byCategoryResolution, limits) ==
    \A cat \in HQ_CATEGORIES :
        IF limits[cat] <= 0 THEN TRUE
        ELSE \E res \in HQ_RES : byCategoryResolution[cat][res] >= limits[cat]

\* HQ_CATEGORIES.every(cat => { const limit = rdQualityLimits[cat];
\*   if (typeof limit !== 'number' || limit <= 0) return true;
\*   return HQ_RES.every(res => (personalByCategoryResolution?.[cat]?.[res] || 0) >= limit); })
personalHighResSatisfied(byCategoryResolution, limits) ==
    \A cat \in HQ_CATEGORIES :
        IF limits[cat] <= 0 THEN TRUE
        ELSE \A res \in HQ_RES : byCategoryResolution[cat][res] >= limits[cat]

(***************************************************************************)
(* SpecGate: the gate applied to every bounded list of personal files and  *)
(* every bounded environment.                                              *)
(***************************************************************************)
GateFileKinds ==
    { [category |-> "Remux", resolution |-> "2160p"],
      [category |-> "Remux", resolution |-> "1080p"],
      [category |-> "BluRay", resolution |-> "1080p"],
      [category |-> "WEB/WEB-DL", resolution |-> "2160p"] }

GateEnvs ==
    [MAX_RESULTS_PER_QUALITY : {<<>>, <<1>>, <<-1>>},
     MAX_RESULTS_REMUX : {<<>>, <<0>>, <<-1>>, <<1>>, <<2>>},
     MAX_RESULTS_BLURAY : {<<>>, <<-1>>, <<1>>},
     MAX_RESULTS_WEBDL : {<<>>, <<-1>>},
     MAX_RESULTS_WEBRIP : {<<>>},
     MAX_RESULTS_AUDIO : {<<>>},
     MAX_RESULTS_OTHER : {<<>>}]

InitGate ==
    /\ IdleSearch
    /\ IdleResolve
    /\ IdleStore
    /\ IdlePack
    /\ gateEval \in [evaluated : {FALSE}, files : SeqsUpTo(GateFileKinds, MaxGateFiles),
                      env : GateEnvs]
    /\ lc = lcIdle
    /\ lcRuns = 0
    /\ torrentIdsToDelete = {}
    /\ immediates = <<>>
    /\ mongoEnabled = FALSE
    /\ nextTorrentId = 1
    /\ added = {}

GateEvaluate ==
    /\ ~gateEval.evaluated
    /\ gateEval' =
           [evaluated |-> TRUE, files |-> gateEval.files, env |-> gateEval.env,
            limits |-> rdQualityLimits(gateEval.env),
            satisfied |-> personalHighResSatisfied(
                              personalByCategoryResolution(gateEval.files),
                              rdQualityLimits(gateEval.env))]
    /\ UNCHANGED <<verifyVars, searchVars, resolveVars, storeVars, packVars, abortVars>>

SpecGate == InitGate /\ [][GateEvaluate]_vars

(***************************************************************************)
(* searchRealDebridTorrents: data and helpers.                             *)
(***************************************************************************)
\* The caller's own files of the release, as searchPersonalFiles returns them (unique by
\* url): size in GiB, category and resolution as processTorrents and formatDownloadFile
\* set them.  A download has no hash.
PersonalRemux2160 ==
    [hash |-> HashAb, name |-> "Remux.2160p.mkv", size |-> 3,
     category |-> "Remux", resolution |-> "2160p"]
PersonalRemux1080 ==
    [hash |-> <<"c", "d">>, name |-> "Remux.1080p.mkv", size |-> 5,
     category |-> "Remux", resolution |-> "1080p"]
PersonalOther720 ==
    [hash |-> <<>>, name |-> "Movie.720p.mkv", size |-> 7,
     category |-> "Other", resolution |-> "720p"]
PersonalKinds == {PersonalRemux2160, PersonalRemux1080, PersonalOther720}

NoDuplicates(q) == \A i, j \in DOMAIN q : q[i] = q[j] => i = j

PersonalOptions == {q \in SeqsUpTo(PersonalKinds, MaxPersonal) : NoDuplicates(q)}

\* Candidates as the producers return them; the first has the infohash of
\* PersonalRemux2160 in upper case.
ExternalKinds ==
    { [InfoHash |-> HashAbUpper, Title |-> "Movie.WEB.1080p", Seeders |-> 5, Size |-> 4,
       category |-> "WEB/WEB-DL", resolution |-> "1080p"],
      [InfoHash |-> HashBe, Title |-> "Movie.BluRay.2160p", Seeders |-> 9, Size |-> 2,
       category |-> "BluRay", resolution |-> "2160p"] }

ScraperOutputs == SeqsUpTo(ExternalKinds, MaxExternal)

\* The environments of SpecSearch: nothing set; Remux limited to 1 and the other two
\* high-quality categories switched off; every default switched off.
EnvUnset ==
    [MAX_RESULTS_PER_QUALITY |-> <<>>, MAX_RESULTS_REMUX |-> <<>>,
     MAX_RESULTS_BLURAY |-> <<>>, MAX_RESULTS_WEBDL |-> <<>>, MAX_RESULTS_WEBRIP |-> <<>>,
     MAX_RESULTS_AUDIO |-> <<>>, MAX_RESULTS_OTHER |-> <<>>]
SearchEnvs ==
    { EnvUnset,
      [EnvUnset EXCEPT !.MAX_RESULTS_REMUX = <<1>>, !.MAX_RESULTS_BLURAY = <<-1>>,
                       !.MAX_RESULTS_WEBDL = <<-1>>],
      [EnvUnset EXCEPT !.MAX_RESULTS_PER_QUALITY = <<-1>>] }

\* What getReleaseCounts answers in SpecSearch: no record of the release, or two records
\* of every high-quality category at each high resolution.
FullCounts ==
    [cat \in Categories |->
        [res \in Resolutions |->
            IF cat \in HQ_CATEGORIES /\ res \in HQ_RES THEN 2 ELSE 0]]
StoreCountOptions == {NoCounts, FullCounts}

combinedByCategoryResolution_Larger(mongoCounts, personalCounts) ==
    [cat \in Categories |->
        [res \in Resolutions |->
            IF mongoCounts[cat][res] > personalCounts[cat][res]
            THEN mongoCounts[cat][res] ELSE personalCounts[cat][res]]]

\* combinedByCategoryResolution: the store's counts plus the personal counts.
combinedByCategoryResolution(mongoCounts, personalCounts) ==
    [cat \in Categories |->
        [res \in Resolutions |-> mongoCounts[cat][res] + personalCounts[cat][res]]]

gateCounts_Combined(personalCounts, combinedCounts) == combinedCounts

\* Line 334 reads personalByCategoryResolution, not the combined counts.
gateCounts(personalCounts, combinedCounts) == personalCounts

takesEarlyExit_Never(satisfied) == FALSE

\* if (personalHighResSatisfied) { ... return allResults; }
takesEarlyExit(satisfied) == satisfied

\* makeReleaseKey(type, imdbId, season, episode)
makeReleaseKey(type, imdbId, season, episode) ==
    IF type = "series" /\ season # <<>> /\ episode # <<>>
    THEN <<type, imdbId, season, episode>>
    ELSE <<type, imdbId>>

\* The upsert payloads built from the personal files (lines 343-355 and 577-589).
personalUpserts(files, releaseKey) ==
    LET payload(f) == [service |-> REALDEBRID, hash |-> toLowerCase(f.hash),
                       fileName |-> f.name, size |-> f.size, releaseKey |-> releaseKey,
                       category |-> f.category, resolution |-> f.resolution]
        withHash == SelectSeq(files, LAMBDA f : f.hash # <<>>)
    IN [i \in DOMAIN withHash |-> payload(withHash[i])]

\* uniqueUpserts: the first payload of every service:hash.
uniqueUpserts(payloads) ==
    LET idx == [i \in DOMAIN payloads |-> i]
        first == SelectSeq(idx, LAMBDA i :
                     /\ payloads[i].hash # <<>>
                     /\ \A j \in 1..(i - 1) :
                            ~(/\ payloads[j].service = payloads[i].service
                              /\ toLowerCase(payloads[j].hash) = toLowerCase(payloads[i].hash)))
    IN [k \in DOMAIN first |-> payloads[first[k]]]

\* deferMongoUpserts(payloads): nothing with the store disabled or without payloads;
\* otherwise one upsertCachedMagnets queued with setImmediate.
deferMongoUpserts(queue, enabled, payloads) ==
    IF ~enabled \/ payloads = <<>> THEN queue
    ELSE Append(queue, [op |-> "upsertCachedMagnets", records |-> payloads])

\* combineAndMarkResults, the external part: new Map(externalTorrents.map(t =>
\* [t.InfoHash?.toLowerCase(), t])) keeps one entry per key, at the position of the key's
\* first occurrence and with the value of its last; then the candidates whose hash is a
\* personal hash are dropped.
isPersonalHash_CaseSensitive(personalHashes, infoHash) == infoHash \in personalHashes

\* personalHashes.has(t.InfoHash.toLowerCase())
isPersonalHash(personalHashes, infoHash) == toLowerCase(infoHash) \in personalHashes

\* new Set(personalFiles.map(f => f.hash?.toLowerCase()).filter(Boolean))
personalHashesOf(personalFiles) ==
    {toLowerCase(personalFiles[i].hash) :
         i \in {j \in DOMAIN personalFiles : personalFiles[j].hash # <<>>}}

combineAndMarkResults(personalFiles, externalTorrents) ==
    LET key(t) == toLowerCase(t.InfoHash)
        idx == [i \in DOMAIN externalTorrents |-> i]
        first == SelectSeq(idx, LAMBDA i :
                     \A j \in 1..(i - 1) : key(externalTorrents[j]) # key(externalTorrents[i]))
        last(i) == CHOOSE j \in DOMAIN externalTorrents :
                       /\ key(externalTorrents[j]) = key(externalTorrents[i])
                       /\ \A k \in DOMAIN externalTorrents :
                              key(externalTorrents[k]) = key(externalTorrents[i]) => k <= j
        uniqueExternalTorrents == [k \in DOMAIN first |-> externalTorrents[last(first[k])]]
        personalHashes == personalHashesOf(personalFiles)
    IN SelectSeq(uniqueExternalTorrents,
                 LAMBDA t : t.InfoHash # <<>> /\ ~isPersonalHash(personalHashes, t.InfoHash))

\* formatCachedResult(torrent, isCached), the fields the engine reads afterwards.
formatPersonal(file) ==
    [name |-> file.name, size |-> file.size, hash |-> toLowerCase(file.hash),
     isPersonal |-> TRUE, isCached |-> TRUE, resolution |-> file.resolution]
formatExternal(t, isCached) ==
    [name |-> t.Title, size |-> t.Size, hash |-> toLowerCase(t.InfoHash),
     isPersonal |-> FALSE, isCached |-> isCached, resolution |-> t.resolution]

\* torrentUtils.resolutionOrder: a fixed rank per resolution, unknown lowest.
resolutionOrder == [res \in Resolutions |->
    CASE res = "2160p" -> 4 [] res = "1080p" -> 3 [] res = "720p" -> 2 [] OTHER -> 0]

sortsBefore_SizeOnly(a, b) == a.size > b.size

\* allResults.sort((a, b) => rankA !== rankB ? rankB - rankA : (b.size||0) - (a.size||0));
\* Array.prototype.sort is stable.
sortsBefore(a, b) ==
    \/ resolutionOrder[a.resolution] > resolutionOrder[b.resolution]
    \/ /\ resolutionOrder[a.resolution] = resolutionOrder[b.resolution]
       /\ a.size > b.size

RECURSIVE sortResults(_)
sortResults(results) ==
    IF results = <<>> THEN <<>>
    ELSE LET sorted == sortResults(SubSeq(results, 1, Len(results) - 1))
             x == results[Len(results)]
             n == IF \E i \in DOMAIN sorted : sortsBefore(x, sorted[i])
                  THEN (CHOOSE i \in DOMAIN sorted :
                            /\ sortsBefore(x, sorted[i])
                            /\ \A j \in 1..(i - 1) : ~sortsBefore(x, sorted[j])) - 1
                  ELSE Len(sorted)
         IN SubSeq(sorted, 1, n) \o <<x>> \o SubSeq(sorted, n + 1, Len(sorted))

\* nonCachedTorrents.sort((a, b) => (b.Seeders || 0) - (a.Seeders || 0)).slice(0, 5)
TOP_NON_CACHED == 5

RECURSIVE sortBySeeders(_)
sortBySeeders(ts) ==
    IF ts = <<>> THEN <<>>
    ELSE LET sorted == sortBySeeders(SubSeq(ts, 1, Len(ts) - 1))
             x == ts[Len(ts)]
             n == IF \E i \in DOMAIN sorted : x.Seeders > sorted[i].Seeders
                  THEN (CHOOSE i \in DOMAIN sorted :
                            /\ x.Seeders > sorted[i].Seeders
                            /\ \A j \in 1..(i - 1) : ~(x.Seeders > sorted[j].Seeders)) - 1
                  ELSE Len(sorted)
         IN SubSeq(sorted, 1, n) \o <<x>> \o SubSeq(sorted, n + 1, Len(sorted))

topNonCached_All(nonCachedTorrents) == sortBySeeders(nonCachedTorrents)

topNonCached(nonCachedTorrents) ==
    LET sorted == sortBySeeders(nonCachedTorrents)
    IN SubSeq(sorted, 1, IF Len(sorted) < TOP_NON_CACHED THEN Len(sorted) ELSE TOP_NON_CACHED)

\* for (const torrentId of torrentIds): a Set iterates in insertion order, and the
\* provider's ids are registered in the order it assigned them.
RECURSIVE idsInOrder(_)
idsInOrder(ids) ==
    IF ids = {} THEN <<>>
    ELSE LET least == CHOOSE i \in ids : \A j \in ids : i <= j
         IN <<least>> \o idsInOrder(ids \ {least})

(***************************************************************************)
(* searchRealDebridTorrents, step by step: one action per continuation     *)
(* between two awaits.                                                     *)
(***************************************************************************)
ScraperCounts == {0, 2}   \* producers enabled by the configuration

\* The provider's answers to the status read that SpecSearch enumerates.
SearchInfoResponses ==
    { [data |-> FALSE, status |-> "", files |-> <<>>],
      [data |-> TRUE, status |-> "magnet_error", files |-> <<>>],
      [data |-> TRUE, status |-> "downloaded",
       files |-> << [id |-> 1, path |-> PathMkv, bytes |-> 1288490188] >>],
      [data |-> TRUE, status |-> "downloaded",
       files |-> << [id |-> 1, path |-> PathMkv, bytes |-> 1288490188],
                    [id |-> 5, path |-> PathRarUpper, bytes |-> 0] >>] }

\* The search of SpecSearch is a movie search.
SearchReleaseKey == makeReleaseKey("movie", "tt1", <<>>, <<>>)

\* Lines 225-231: the id check, then await Cinemeta.getMeta(type, imdbId).
SearchCall ==
    /\ srch.pc = "called"
    /\ srch' = IF srch.idOk THEN [srch EXCEPT !.pc = "meta"]
               ELSE [srch EXCEPT !.pc = "done", !.outcome = "resolved", !.result = <<>>]
    /\ UNCHANGED <<verifyVars, gateEval, resolveVars, scraperCalls,
                   globalAbortController, cleanup,
                   deleteLog, storeVars, packVars, abortVars>>

\* createAbortController(): abort the current controller, if any, and install a new one.
createAbortController(current, own) == own

abortCurrent_Never(abortedSoFar, current) == abortedSoFar

\* if (globalAbortController) globalAbortController.abort();
abortCurrent(abortedSoFar, current) ==
    IF current # 0 THEN abortedSoFar \cup {current} ELSE abortedSoFar

resetOnFinish_Always(current, own) == 0

\* if (abortController === globalAbortController) globalAbortController = null;
resetOnFinish(current, own) == IF current = own THEN 0 ELSE current

\* Lines 231-256: getMeta settles before the try block is entered; then the controller,
\* the to-delete set, and await searchPersonalFiles(...).
SearchMeta ==
    /\ srch.pc = "meta"
    /\ \E meta \in {"details", "null", "rejects"} :
         CASE meta = "rejects" ->
                /\ srch' = [srch EXCEPT !.pc = "done", !.outcome = "rejected",
                                        !.threw = "getMeta"]
                /\ UNCHANGED <<globalAbortController, aborted, torrentIdsToDelete>>
           [] meta = "null" ->
                /\ srch' = [srch EXCEPT !.pc = "done", !.outcome = "resolved",
                                        !.result = <<>>]
                /\ UNCHANGED <<globalAbortController, aborted, torrentIdsToDelete>>
           [] meta = "details" ->
                /\ srch' = [srch EXCEPT !.pc = "personal"]
                /\ aborted' = abortCurrent(aborted, globalAbortController)
                /\ globalAbortController' = createAbortController(globalAbortController, 1)
                /\ torrentIdsToDelete' = {}
    /\ UNCHANGED <<lc, lcRuns, immediates, mongoEnabled, nextTorrentId, added, gateEval,
                   resolveVars, other,
                   scraperCalls, cleanup, deleteLog, storeVars, packVars>>

\* Lines 283-405 once the store's counts are known: the personal counts, the combined
\* counts, the limits, the gate; then either the early exit (personal upserts deferred,
\* personal results formatted and sorted, return) or the producers are invoked and
\* awaited jointly.
SearchGate(files, mongoCounts) ==
    LET limits == rdQualityLimits(srch.env)
        personal == personalByCategoryResolution(files)
        combined == combinedByCategoryResolution(mongoCounts, personal)
        satisfied == personalHighResSatisfied(gateCounts(personal, combined), limits)
    IN IF takesEarlyExit(satisfied)
       THEN /\ srch' = [srch EXCEPT !.pc = "finally", !.personalFiles = files,
                                    !.mongoCounts = mongoCounts, !.gated = TRUE,
                                    !.gate = satisfied, !.earlyExit = TRUE,
                                    !.result = sortResults([i \in DOMAIN files |->
                                                               formatPersonal(files[i])])]
            /\ immediates' = deferMongoUpserts(immediates, mongoEnabled,
                                 uniqueUpserts(personalUpserts(files, SearchReleaseKey)))
            /\ UNCHANGED scraperCalls
       ELSE /\ srch' = [srch EXCEPT !.pc = "scrape", !.personalFiles = files,
                                    !.mongoCounts = mongoCounts, !.gated = TRUE,
                                    !.gate = satisfied]
            /\ scraperCalls' = scraperCalls + srch.scrapers
            /\ UNCHANGED immediates

\* Another search of the process (controller 2) reaches line 249 and calls
\* createAbortController(): the current controller, if there is one, is aborted and the
\* new one becomes the global one.  The callbacks queued with setImmediate are not
\* touched.
OtherSearch ==
    /\ other = "idle"
    /\ other' = "running"
    /\ aborted' = abortCurrent(aborted, globalAbortController)
    /\ globalAbortController' = createAbortController(globalAbortController, 2)
    /\ UNCHANGED <<verifyVars, gateEval, resolveVars, srch, scraperCalls, cleanup,
                   deleteLog, storeVars, packVars>>

\* The finally block of the other search (line 657).
OtherSearchFinally ==
    /\ other = "running"
    /\ other' = "done"
    /\ globalAbortController' = resetOnFinish(globalAbortController, 2)
    /\ UNCHANGED <<verifyVars, gateEval, resolveVars, srch, scraperCalls, cleanup,
                   deleteLog, storeVars, packVars, aborted>>

\* searchPersonalFiles resolved (it catches its own errors) with the matching files of
\* the account.  With the store enabled the
\* search awaits getReleaseCounts next; otherwise it runs on to the gate.
SearchPersonal ==
    /\ srch.pc = "personal"
    /\ IF mongoEnabled
       THEN /\ srch' = [srch EXCEPT !.pc = "counts", !.personalFiles = srch.account]
            /\ UNCHANGED <<scraperCalls, immediates>>
       ELSE SearchGate(srch.account, NoCounts)
    /\ UNCHANGED <<lc, lcRuns, torrentIdsToDelete, mongoEnabled, nextTorrentId, added, gateEval,
                   resolveVars, globalAbortController, cleanup, deleteLog, storeVars,
                   packVars, abortVars>>

\* getReleaseCounts settled: its counts, or the empty default when it threw
\* (try { mongoCounts = await ... } catch {}).
SearchCounts ==
    /\ srch.pc = "counts"
    /\ \/ \E counts \in StoreCountOptions : SearchGate(srch.personalFiles, counts)
       \/ SearchGate(srch.personalFiles, NoCounts)
    /\ UNCHANGED <<lc, lcRuns, torrentIdsToDelete, mongoEnabled, nextTorrentId, added, gateEval,
                   resolveVars, globalAbortController, cleanup, deleteLog, storeVars,
                   packVars, abortVars>>

\* Promise.all(scraperPromises) settled.  A rejection goes to the catch block.  Otherwise
\* lines 406-599: combine, filter, defer the personal upserts, and call
\* processAndFilterTorrents.
SearchScrape ==
    /\ srch.pc = "scrape"
    /\ \/ /\ srch.scrapers > 0
          /\ srch' = [srch EXCEPT !.pc = "finally", !.result = <<>>, !.threw = "scrapers"]
          /\ UNCHANGED immediates
       \/ LET scraperResults == IF srch.scrapers > 0 THEN srch.produced ELSE <<>>
               externalTorrents == combineAndMarkResults(srch.personalFiles, scraperResults)
            IN /\ srch' = [srch EXCEPT !.pc = "process",
                                       !.externalTorrents = externalTorrents,
                                       !.pending = externalTorrents]
               /\ immediates' = deferMongoUpserts(immediates, mongoEnabled,
                                    personalUpserts(srch.personalFiles, SearchReleaseKey))
    /\ UNCHANGED <<lc, lcRuns, torrentIdsToDelete, mongoEnabled, nextTorrentId, added, gateEval,
                   resolveVars, scraperCalls, globalAbortController, cleanup, deleteLog,
                   storeVars, packVars, abortVars>>

\* Lines 639-650: personal files and results, formatted and sorted.
searchResults(personalFiles, cachedResults) ==
    sortResults([i \in DOMAIN personalFiles |-> formatPersonal(personalFiles[i])]
                \o [i \in DOMAIN cachedResults |->
                        formatExternal(cachedResults[i].t, cachedResults[i].isCached)])

\* The payloads of lines 616-631.
cachedUpserts(cachedResults) ==
    [i \in DOMAIN cachedResults |->
        [service |-> REALDEBRID, hash |-> toLowerCase(cachedResults[i].t.InfoHash),
         fileName |-> cachedResults[i].t.Title, size |-> cachedResults[i].t.Size,
         releaseKey |-> SearchReleaseKey, category |-> cachedResults[i].t.category,
         resolution |-> cachedResults[i].t.resolution]]

\* The ceiling the combined quotas leave for a category and resolution: the limit less
\* the combined count of personal and stored records, never negative.
remainingQuota(env, mongoCounts, personalFiles, cat, res) ==
    LET limit == rdQualityLimits(env)[cat]
        combined == combinedByCategoryResolution(
                        mongoCounts, personalByCategoryResolution(personalFiles))[cat][res]
    IN IF limit - combined > 0 THEN limit - combined ELSE 0

\* Whether the results found so far leave room for one more of the candidate's category
\* and resolution.
quotaHasRoom(t) ==
    Cardinality({i \in DOMAIN srch.cachedResults :
                    /\ srch.cachedResults[i].t.category = t.category
                    /\ srch.cachedResults[i].t.resolution = t.resolution})
        < remainingQuota(srch.env, srch.mongoCounts, srch.personalFiles,
                         t.category, t.resolution)

\* processAndFilterTorrents(externalTorrents, rdHandler, episodeInfo, combinedQuotas):
\* verification of the candidates under the remaining quota, one liveCheckHash after
\* the other; a candidate the quota leaves no room for is passed over.
ProcessStart ==
    /\ srch.pc = "process" /\ lc.pc = "idle" /\ srch.pending # <<>>
    /\ \/ /\ quotaHasRoom(Head(srch.pending))
          /\ lc' = liveCheckBegin(Head(srch.pending).InfoHash)
          /\ lcRuns' = lcRuns + 1
          /\ UNCHANGED srch
       \/ /\ srch' = [srch EXCEPT !.pending = Tail(@)]
          /\ UNCHANGED <<lc, lcRuns>>
    /\ UNCHANGED <<torrentIdsToDelete, immediates, mongoEnabled, nextTorrentId, added, gateEval,
                   resolveVars, scraperCalls, globalAbortController, cleanup, deleteLog,
                   storeVars, packVars, abortVars>>

ProcessCollect ==
    /\ srch.pc = "process" /\ lc.pc = "done"
    /\ srch' = IF lc.ret = "threw"
               THEN [srch EXCEPT !.pc = "finally", !.result = <<>>, !.threw = "liveCheckHash"]
               ELSE [srch EXCEPT !.pending = Tail(@),
                                 !.cachedResults =
                                     IF lc.ret = "true"
                                     THEN Append(@, [t |-> Head(srch.pending), isCached |-> TRUE])
                                     ELSE @]
    /\ lc' = lcIdle
    /\ UNCHANGED <<lcRuns, torrentIdsToDelete, immediates, mongoEnabled, nextTorrentId, added,
                   gateEval, resolveVars, scraperCalls, globalAbortController, cleanup,
                   deleteLog, storeVars, packVars, abortVars>>

\* processAndFilterTorrents threw: the catch block returns [].
ProcessThrows ==
    /\ srch.pc = "process" /\ lc.pc = "idle" /\ pack.pc \in {"idle", "done"}
    /\ srch' = [srch EXCEPT !.pc = "finally", !.result = <<>>, !.threw = "process"]
    /\ UNCHANGED <<verifyVars, gateEval, resolveVars, scraperCalls,
                   globalAbortController, cleanup,
                   deleteLog, storeVars, packVars, abortVars>>

\* Lines 600-650 when processAndFilterTorrents resolved: the candidates not in
\* cachedResults; with none left, the result; otherwise the top 5 by seeders go to
\* inspectAndFilterNonCached.
ProcessFinish ==
    /\ srch.pc = "process" /\ lc.pc = "idle" /\ srch.pending = <<>>
    /\ pack.pc \in {"idle", "done"}
    /\ LET nonCachedTorrents ==
               SelectSeq(srch.externalTorrents, LAMBDA t :
                   ~\E i \in DOMAIN srch.cachedResults :
                        srch.cachedResults[i].t.InfoHash = t.InfoHash)
       IN srch' = IF nonCachedTorrents = <<>>
                  THEN [srch EXCEPT !.pc = "finally",
                                    !.result = searchResults(srch.personalFiles,
                                                             srch.cachedResults)]
                  ELSE [srch EXCEPT !.pc = "topPass", !.verified = <<>>,
                                    !.pending = topNonCached(nonCachedTorrents)]
    /\ UNCHANGED <<verifyVars, gateEval, resolveVars, scraperCalls,
                   globalAbortController, cleanup,
                   deleteLog, storeVars, packVars, abortVars>>

\* inspectAndFilterNonCached: for (const torrent of torrents) { await liveCheckHash ... }
TopStart ==
    /\ srch.pc = "topPass" /\ lc.pc = "idle" /\ srch.pending # <<>>
    /\ lc' = liveCheckBegin(Head(srch.pending).InfoHash)
    /\ lcRuns' = lcRuns + 1
    /\ UNCHANGED <<torrentIdsToDelete, immediates, mongoEnabled, nextTorrentId, added, gateEval,
                   resolveVars, searchVars, storeVars, packVars, abortVars>>

TopCollect ==
    /\ srch.pc = "topPass" /\ lc.pc = "done"
    /\ srch' = IF lc.ret = "threw"
               THEN [srch EXCEPT !.pc = "finally", !.result = <<>>, !.threw = "liveCheckHash"]
               ELSE [srch EXCEPT !.pending = Tail(@),
                                 !.verified = IF lc.ret = "true"
                                              THEN Append(@, Head(srch.pending)) ELSE @]
    /\ lc' = lcIdle
    /\ UNCHANGED <<lcRuns, torrentIdsToDelete, immediates, mongoEnabled, nextTorrentId, added,
                   gateEval, resolveVars, scraperCalls, globalAbortController, cleanup,
                   deleteLog, storeVars, packVars, abortVars>>

\* Lines 612-650: the verified candidates join the results as non-cached, everything in
\* cachedResults is deferred to the store, and the result is formatted and sorted.
TopFinish ==
    /\ srch.pc = "topPass" /\ lc.pc = "idle" /\ srch.pending = <<>>
    /\ LET cachedResults ==
               srch.cachedResults
                   \o [i \in DOMAIN srch.verified |->
                           [t |-> srch.verified[i], isCached |-> FALSE]]
       IN /\ srch' = [srch EXCEPT !.pc = "finally", !.cachedResults = cachedResults,
                                  !.result = searchResults(srch.personalFiles, cachedResults)]
          /\ immediates' = deferMongoUpserts(immediates, mongoEnabled,
                               uniqueUpserts(cachedUpserts(cachedResults)))
    /\ UNCHANGED <<lc, lcRuns, torrentIdsToDelete, mongoEnabled, nextTorrentId, added, gateEval,
                   resolveVars, scraperCalls, globalAbortController, cleanup, deleteLog,
                   storeVars, packVars, abortVars>>

\* The loop of cleanupTemporaryTorrents moves to the next id and issues its delete call,
\* or ends.
CleanupProceed(rest) ==
    IF rest = <<>>
    THEN /\ cleanup' = [pc |-> "done", rest |-> <<>>, current |-> 0, status |-> 0]
         /\ UNCHANGED deleteLog
    ELSE /\ cleanup' = [pc |-> "delete", rest |-> Tail(rest), current |-> Head(rest),
                         status |-> 0]
         /\ deleteLog' = Append(deleteLog, Head(rest))

\* finally { await saveHashCache(); if (abortController === globalAbortController)
\* globalAbortController = null; cleanupTemporaryTorrents(RD, torrentIdsToDelete); }
\* cleanupTemporaryTorrents is not awaited: it runs up to its first delete call, and the
\* search settles with the value returned before.
SearchFinally ==
    /\ srch.pc = "finally"
    /\ globalAbortController' = resetOnFinish(globalAbortController, 1)
    /\ CleanupProceed(idsInOrder(torrentIdsToDelete))
    /\ srch' = [srch EXCEPT !.pc = "done", !.outcome = "resolved"]
    /\ UNCHANGED <<verifyVars, gateEval, resolveVars, scraperCalls, storeVars, packVars, abortVars>>

cleanupAfterFailure_Stop(rest) == <<>>

\* catch (deleteError) { ... console.error(...) }: a failed delete is logged and the
\* loop goes on with the ids that remain.
cleanupAfterFailure(rest) == rest

isRateLimited_AnyFailure(status) == TRUE

\* deleteError.response?.status === 429
isRateLimited(status) == status = 429

\* await rdCall(() => RD.torrents.delete(torrentId)) settled: done (0), or rejected
\* with the status of the provider's response: 429 (then await delay(3000)) or another.
CleanupDelete ==
    /\ cleanup.pc = "delete"
    /\ \E status \in {0, 429, 503} :
         CASE status = 0 -> CleanupProceed(cleanup.rest)
           [] status # 0 /\ ~isRateLimited(status) ->
                CleanupProceed(cleanupAfterFailure(cleanup.rest))
           [] status # 0 /\ isRateLimited(status) ->
                /\ cleanup' = [cleanup EXCEPT !.pc = "delay", !.status = status]
                /\ UNCHANGED deleteLog
    /\ UNCHANGED <<verifyVars, gateEval, resolveVars, srch, scraperCalls,
                   globalAbortController, storeVars, packVars, abortVars>>

\* The delay elapsed: the one retry is issued.
CleanupRetry ==
    /\ cleanup.pc = "delay"
    /\ cleanup' = [cleanup EXCEPT !.pc = "retry"]
    /\ deleteLog' = Append(deleteLog, cleanup.current)
    /\ UNCHANGED <<verifyVars, gateEval, resolveVars, srch, scraperCalls,
                   globalAbortController, storeVars, packVars, abortVars>>

\* The retry settled; its rejection is logged by .catch(retryError => ...).
CleanupRetryDone ==
    /\ cleanup.pc = "retry"
    /\ \E outcome \in {"ok", "error"} :
         CleanupProceed(IF outcome = "ok" THEN cleanup.rest
                        ELSE cleanupAfterFailure(cleanup.rest))
    /\ UNCHANGED <<verifyVars, gateEval, resolveVars, srch, scraperCalls,
                   globalAbortController, storeVars, packVars, abortVars>>

\* The steps of the liveCheckHash activation the search awaits.
SearchAddMagnet ==
    /\ srch.pc \in {"process", "topPass"}
    /\ LcAddMagnet
    /\ UNCHANGED <<gateEval, resolveVars, searchVars, storeVars, packVars, abortVars>>

SearchSelectFiles ==
    /\ srch.pc \in {"process", "topPass"}
    /\ LcSelectFiles
    /\ UNCHANGED <<gateEval, resolveVars, searchVars, storeVars, packVars, abortVars>>

SearchInfo ==
    /\ srch.pc \in {"process", "topPass"}
    /\ LcInfoFrom(SearchInfoResponses)
    /\ UNCHANGED <<gateEval, resolveVars, searchVars, storeVars, packVars, abortVars>>

\* The state at the call of searchRealDebridTorrents, for a request and a world out of
\* the given sets: whether the id is a usable string, the environment, the number of
\* producers enabled, the account's files matching the title (what searchPersonalFiles
\* will answer) and the candidates the producers will answer with if they resolve
\* (none when no producer is enabled).
SearchStart(ids, envs, counts, accounts, productions, enabled) ==
    /\ IdleGate
    /\ IdleResolve
    /\ IdleStore
    /\ IdlePack
    /\ lc = lcIdle
    /\ lcRuns = 0
    /\ torrentIdsToDelete = {}
    /\ immediates = <<>>
    /\ mongoEnabled \in enabled
    /\ nextTorrentId = 1
    /\ added = {}
    /\ srch \in [pc : {"called"}, idOk : ids, env : envs, scrapers : counts,
                 account : accounts, produced : productions,
                 outcome : {"pending"}, result : {<<>>}, threw : {"none"},
                 personalFiles : {<<>>}, mongoCounts : {NoCounts},
                 gated : {FALSE}, gate : {FALSE}, earlyExit : {FALSE},
                 externalTorrents : {<<>>}, cachedResults : {<<>>}, verified : {<<>>},
                 pending : {<<>>}]
    /\ srch.scrapers = 0 => srch.produced = <<>>
    /\ scraperCalls = 0
    /\ globalAbortController = 0
    /\ aborted = {}
    /\ other = "idle"
    /\ cleanup = cleanupIdle
    /\ deleteLog = <<>>

InitSearch ==
    SearchStart(BOOLEAN, SearchEnvs, ScraperCounts, PersonalOptions, ScraperOutputs, BOOLEAN)

\* One search with the store enabled, default limits, no personal file and both
\* candidates produced.
InitSearchFair ==
    SearchStart({TRUE}, {EnvUnset}, {2}, {<<>>},
                {q \in ScraperOutputs : NoDuplicates(q) /\ Len(q) = 2}, {TRUE})

NextSearch ==
    \/ SearchCall \/ SearchMeta \/ OtherSearch \/ OtherSearchFinally
    \/ SearchPersonal \/ SearchCounts \/ SearchScrape
    \/ ProcessStart \/ ProcessCollect \/ ProcessThrows \/ ProcessFinish
    \/ TopStart \/ TopCollect \/ TopFinish
    \/ SearchAddMagnet \/ SearchSelectFiles \/ SearchInfo
    \/ SearchFinally \/ CleanupDelete \/ CleanupRetry \/ CleanupRetryDone

SpecSearch == InitSearch /\ [][NextSearch]_vars

\* The event loop runs every continuation that is ready, and every provider call
\* settles (the call gate's timeout discipline).
SpecSearchFair == InitSearchFair /\ [][NextSearch]_vars /\ WF_vars(NextSearch)

backgroundWriteSettled_Surfaced(search, written) ==
    IF written THEN search ELSE [search EXCEPT !.result = <<>>]

\* mongoCache.upsertCachedMagnet(payload).catch(() => {}) and
\* mongoCache.upsertCachedMagnets(payloads).catch(err => console.error(...)): the promise
\* of the write is held by the callback alone; however it settles, the search is as it
\* was.
backgroundWriteSettled(search, written) == search

\* The event loop runs the oldest callback queued with setImmediate: the store write is
\* called and settles, written or not (the store's operations resolve to false on
\* failure).
RunImmediate ==
    /\ immediates # <<>>
    /\ immediates' = Tail(immediates)
    /\ storeCalls' = storeCalls + 1
    /\ \E written \in BOOLEAN :
         /\ applied' = IF written
                       THEN Append(applied, [writer |-> "setImmediate",
                                             input |-> Head(immediates).records,
                                             updatedAt |-> clock])
                       ELSE applied
         /\ srch' = backgroundWriteSettled(srch, written)
    /\ UNCHANGED <<lc, lcRuns, torrentIdsToDelete, mongoEnabled, nextTorrentId, added, gateEval,
                   resolveVars, scraperCalls, globalAbortController, cleanup, deleteLog,
                   documents, initPromise, mongo, writers, clock, queryVars, packVars, abortVars>>

\* Searches with the store enabled and two producers that return both candidates:
\* with the default limits and with every limit switched off, without a personal file
\* and with one.
InitDeferred ==
    SearchStart({TRUE}, {env \in SearchEnvs : env.MAX_RESULTS_REMUX = <<>>}, {2},
                {<<>>, <<PersonalRemux2160>>},
                {q \in ScraperOutputs : Len(q) = 2 /\ q[1].Seeders > q[2].Seeders}, {TRUE})

NextDeferred ==
    \/ SearchCall \/ SearchMeta \/ OtherSearch \/ OtherSearchFinally
    \/ SearchPersonal \/ SearchCounts \/ SearchScrape
    \/ ProcessStart \/ ProcessCollect \/ ProcessThrows \/ ProcessFinish
    \/ TopStart \/ TopCollect \/ TopFinish
    \/ SearchAddMagnet \/ SearchSelectFiles \/ SearchInfo
    \/ SearchFinally \/ CleanupDelete \/ CleanupRetry \/ CleanupRetryDone
    \/ RunImmediate

\* The search together with the callbacks it queued.
SpecDeferred == InitDeferred /\ [][NextDeferred]_vars

(***************************************************************************)
(* The stream resolution chain: resolveStreamUrl, resolveMagnetUrl and     *)
(* unrestrictUrl.  A reference is a record that keeps what the code reads  *)
(* from the string: whether it holds "magnet:", the urn:btih: hash, the    *)
(* parts of "realdebrid:<torrentId>:<fileId>", the word "undefined".       *)
(***************************************************************************)
\* `realdebrid:${torrentId}:${selected.id}`; a file without id prints as "undefined".
fileReference(torrentId, fileId) ==
    [kind |-> "realdebrid", torrentId |-> torrentId, fileId |-> fileId]

\* The encoded references given to resolveStreamUrl: one that decodeURIComponent
\* rejects, a magnet with the hash in upper case, a magnet without a urn:btih: hash, a
\* file reference, a file reference without file id, a host link, a host link holding
\* "undefined", and the empty string.
EncodedUrls ==
    { [kind |-> "malformed"],
      [kind |-> "magnet", hash |-> HashAbUpper],
      [kind |-> "magnet", hash |-> <<>>],
      fileReference(7, <<1>>),
      fileReference(7, <<>>),
      [kind |-> "host", text |-> "link"],
      [kind |-> "host", text |-> "undefined"],
      [kind |-> "host", text |-> ""] }

\* The references given to unrestrictUrl by a caller of the module: the decoded ones
\* above, and null.
HostUrls == (EncodedUrls \ {[kind |-> "malformed"]}) \cup {Null}

includesMagnet(url) == url.kind = "magnet"
startsWithRealdebrid(url) == url.kind = "realdebrid"
includesUndefined(url) ==
    \/ url.kind = "host" /\ url.text = "undefined"
    \/ url.kind = "realdebrid" /\ url.fileId = <<>>
isEmptyUrl(url) == url.kind = "null" \/ (url.kind = "host" /\ url.text = "")

\* magnetUrl.match(/urn:btih:([a-fA-F0-9]+)/)?.[1], lowercased; <<>> without a match.
magnetHash(url) == toLowerCase(url.hash)

\* The caller's torrents as RD.torrents.get(0, 1, 100) lists them.
TorrentListings ==
    { <<>>,
      << [id |-> 7, hash |-> HashAbUpper, status |-> "downloaded"] >>,
      << [id |-> 7, hash |-> HashAb, status |-> "downloading"] >>,
      << [id |-> 8, hash |-> HashBe, status |-> "finished"],
         [id |-> 7, hash |-> HashAb, status |-> "uploading"] >> }

REUSABLE_STATUSES == {"downloaded", "finished", "uploading"}

findHit_Never(listing, hash) == 0

\* (torrentsResponse.data || []).find(t => t.hash && t.hash.toLowerCase() === hash &&
\*   ['downloaded', 'finished', 'uploading'].includes(t.status)); id 0 without a hit.
findHit(listing, hash) ==
    LET hits == {i \in DOMAIN listing :
                    /\ listing[i].hash # <<>>
                    /\ toLowerCase(listing[i].hash) = hash
                    /\ listing[i].status \in REUSABLE_STATUSES}
    IN IF hits = {} THEN 0
       ELSE listing[CHOOSE i \in hits : \A j \in hits : i <= j].id

\* What RD.torrents.info answers in the chain: no data; files without a links array;
\* a video and an archive, both linked; one small file whose link is "undefined"; a
\* video that is not selected beside a linked text file; a linked video without id.
ResolveInfos ==
    { [data |-> FALSE, files |-> <<>>, links |-> <<>>, hasLinks |-> FALSE],
      [data |-> TRUE, hasLinks |-> FALSE, links |-> <<>>,
       files |-> << [id |-> <<1>>, path |-> PathMkv, bytes |-> 1288490188, selected |-> TRUE] >>],
      [data |-> TRUE, hasLinks |-> TRUE, links |-> <<"L1", "L5">>,
       files |-> << [id |-> <<1>>, path |-> PathMkv, bytes |-> 1288490188, selected |-> TRUE],
                    [id |-> <<5>>, path |-> PathRar, bytes |-> 1024, selected |-> TRUE] >>],
      [data |-> TRUE, hasLinks |-> TRUE, links |-> <<"undefined">>,
       files |-> << [id |-> <<6>>, path |-> PathNfo, bytes |-> 100, selected |-> TRUE] >>],
      [data |-> TRUE, hasLinks |-> TRUE, links |-> <<"L1", "L6">>,
       files |-> << [id |-> <<1>>, path |-> PathMkv, bytes |-> 1288490188, selected |-> FALSE],
                    [id |-> <<6>>, path |-> PathNfo, bytes |-> 100, selected |-> TRUE] >>],
      [data |-> TRUE, hasLinks |-> TRUE, links |-> <<"L1">>,
       files |-> << [id |-> <<>>, path |-> PathMkv, bytes |-> 1288490188, selected |-> TRUE] >>] }

\* info.data.links[index]: "" stands for a missing entry.
linkAt(info, index) == IF index \in DOMAIN info.links THEN info.links[index] ELSE ""

\* The indexes of filesWithLinks: selected !== false && link && link !== 'undefined'.
filesWithLinks(info) ==
    {i \in DOMAIN info.files :
        /\ info.files[i].selected
        /\ linkAt(info, i) # "" /\ linkAt(info, i) # "undefined"}

\* filesWithLinks.find(isValidVideo), else the largest of them (stable sort by bytes).
selectedFile(info) ==
    LET linked == filesWithLinks(info)
        videos == {i \in linked : isValidVideo(info.files[i].path, info.files[i].bytes,
                                               MIN_VIDEO_BYTES)}
    IN IF videos # {}
       THEN info.files[CHOOSE i \in videos : \A j \in videos : i <= j]
       ELSE info.files[CHOOSE i \in linked :
                           \A j \in linked :
                               \/ info.files[j].bytes < info.files[i].bytes
                               \/ (info.files[j].bytes = info.files[i].bytes /\ i <= j)]

\* info.data.files.findIndex(f => f.id.toString() === fileId.toString()); 0 for -1.
findIndex(info, fileId) ==
    LET found == {i \in DOMAIN info.files : info.files[i].id = fileId}
    IN IF found = {} THEN 0 ELSE CHOOSE i \in found : \A j \in found : i <= j

resolveStreamUrlCatch_Rethrow == "rethrow"

\* catch (error) { console.error(...); return null; } of resolveStreamUrl, and the
\* catch { return null; } of resolveMagnetUrl and of unrestrictUrl.
resolveStreamUrlCatch == "null"
resolveMagnetUrlCatch == "null"
unrestrictUrlCatch == "null"

\* An exception thrown under the given catch blocks, innermost first: the first that
\* returns null settles the call; with none the call rejects.
rsThrown(r, step, handlers) ==
    [r EXCEPT !.pc = "done", !.failed = @ \cup {step}, !.result = Null,
              !.outcome = IF \E i \in DOMAIN handlers : handlers[i] = "null"
                          THEN "resolved" ELSE "rejected"]

\* return null, after a step that gave nothing usable.
rsGaveUp(r, step) ==
    [r EXCEPT !.pc = "done", !.failed = @ \cup {step}, !.result = Null,
              !.outcome = "resolved"]

\* The catch block of the exported function the caller entered the chain through.
outerCatch(r) ==
    IF r.entry = "unrestrictUrl" THEN unrestrictUrlCatch ELSE resolveStreamUrlCatch

\* resolveMagnetUrl(apiKey, magnetUrl, clientIp) up to its first provider call: the hash
\* extraction and the listing call.
resolveMagnetUrlEntry(r, magnetUrl) ==
    LET entered == [r EXCEPT !.magnetCalls = @ + 1]
    IN IF magnetHash(magnetUrl) = <<>> THEN rsGaveUp(entered, "hashExtraction")
       ELSE [entered EXCEPT !.pc = "listing", !.hash = magnetHash(magnetUrl),
                            !.listCalls = @ + 1]

\* unrestrictUrl(apiKey, hostUrl, clientIp) up to its first provider call: a file
\* reference goes to the info read, a reference holding "magnet:" to resolveMagnetUrl,
\* anything else to RD.unrestrict.link.
unrestrictUrlEntry(r, hostUrl) ==
    LET entered == [r EXCEPT !.unrestrictEntries = @ + 1]
    IN IF isEmptyUrl(hostUrl) \/ includesUndefined(hostUrl)
       THEN rsGaveUp(entered, "reference")
       ELSE IF startsWithRealdebrid(hostUrl)
       THEN [entered EXCEPT !.pc = "unrestrictInfo", !.ref = hostUrl, !.infoCalls = @ + 1]
       ELSE IF includesMagnet(hostUrl)
       THEN resolveMagnetUrlEntry(entered, hostUrl)
       ELSE [entered EXCEPT !.pc = "unrestrictLink", !.directLink = hostUrl.text,
                            !.unrestrictCalls = @ + 1]

reentryReference_HostUrl(hostUrl, resolved) == hostUrl

\* return await unrestrictUrl(apiKey, fileReference, clientIp): the reference the
\* magnet branch of unrestrictUrl re-enters with is the one resolveMagnetUrl returned.
reentryReference(hostUrl, resolved) == resolved

\* What the caller of resolveMagnetUrl does with a reference it returned.  In
\* resolveStreamUrl (lines 758-762): a realdebrid: reference goes to unrestrictUrl, one
\* holding "magnet:" to processMagnetAlternative.  In the magnet branch of unrestrictUrl
\* (lines 856-859): unrestrictUrl is entered again.
afterResolveMagnetUrl(r, resolved) ==
    IF r.entry = "unrestrictUrl"
    THEN unrestrictUrlEntry(r, reentryReference(r.url, resolved))
    ELSE IF startsWithRealdebrid(resolved) THEN unrestrictUrlEntry(r, resolved)
    ELSE IF includesMagnet(resolved)
    THEN [r EXCEPT !.pc = "alternative", !.alternativeCalls = @ + 1]
    ELSE [r EXCEPT !.pc = "done", !.outcome = "resolved", !.result = resolved]

\* The exported function up to its first await.  resolveStreamUrl: decodeURIComponent,
\* the magnet test, and resolveMagnetUrl or unrestrictUrl entered.  unrestrictUrl: its
\* own tests of the reference.
RsCall ==
    /\ rs.pc = "called"
    /\ rs' = CASE rs.entry = "unrestrictUrl" -> unrestrictUrlEntry(rs, rs.url)
               [] rs.url.kind = "malformed" ->
                    rsThrown(rs, "decode", <<resolveStreamUrlCatch>>)
               [] includesMagnet(rs.url) -> resolveMagnetUrlEntry(rs, rs.url)
               [] OTHER -> unrestrictUrlEntry(rs, rs.url)
    /\ UNCHANGED <<verifyVars, gateEval, searchVars, storeVars, packVars, abortVars>>

\* RD.torrents.get(0, 1, 100) settled, inside try { } catch {}: a hit's id is reused;
\* without a hit, and when the listing threw, add-magnet is called.
RsListing ==
    /\ rs.pc = "listing"
    /\ \/ rs' = [rs EXCEPT !.pc = "addMagnet", !.failed = @ \cup {"listing"},
                           !.addCalls = @ + 1]
       \/ \E listing \in TorrentListings :
            LET hit == findHit(listing, rs.hash)
            IN rs' = IF hit # 0
                     THEN [rs EXCEPT !.pc = "selectFiles", !.listing = listing,
                                     !.torrentId = hit, !.selectCalls = @ + 1]
                     ELSE [rs EXCEPT !.pc = "addMagnet", !.listing = listing,
                                     !.addCalls = @ + 1]
    /\ UNCHANGED <<verifyVars, gateEval, searchVars, storeVars, packVars, abortVars>>

\* RD.torrents.addMagnet(magnetUrl) settled.
RsAddMagnet ==
    /\ rs.pc = "addMagnet"
    /\ \E outcome \in {"id", "empty", "throws"} :
         CASE outcome = "id" ->
                /\ rs' = [rs EXCEPT !.pc = "selectFiles", !.torrentId = nextTorrentId,
                                    !.selectCalls = @ + 1]
                /\ nextTorrentId' = nextTorrentId + 1
                /\ added' = returnedTo(added, nextTorrentId, "stream")
           [] outcome = "empty" ->
                /\ rs' = rsGaveUp(rs, "addMagnet")
                /\ UNCHANGED <<nextTorrentId, added>>
           [] outcome = "throws" ->
                /\ rs' = rsThrown(rs, "addMagnet",
                                  <<resolveMagnetUrlCatch, outerCatch(rs)>>)
                /\ UNCHANGED <<nextTorrentId, added>>
    /\ UNCHANGED <<lc, lcRuns, torrentIdsToDelete, immediates, mongoEnabled, gateEval,
                   searchVars, storeVars, packVars, abortVars>>

\* RD.torrents.selectFiles(torrentId, 'all') settled; then the info call.
RsSelectFiles ==
    /\ rs.pc = "selectFiles"
    /\ \/ rs' = [rs EXCEPT !.pc = "info", !.infoCalls = @ + 1]
       \/ rs' = rsThrown(rs, "selectFiles", <<resolveMagnetUrlCatch, outerCatch(rs)>>)
    /\ UNCHANGED <<verifyVars, gateEval, searchVars, storeVars, packVars, abortVars>>

\* Lines 824-832 and 759-760: the linked files, the selected one, the deferred store
\* write, the file reference, and unrestrictUrl entered with it.
RsSelect(info) ==
    IF filesWithLinks(info) = {}
    THEN /\ rs' = rsGaveUp(rs, "links")
         /\ UNCHANGED immediates
    ELSE LET selected == selectedFile(info)
         IN /\ immediates' = addHashToMongo(immediates, mongoEnabled, rs.hash,
                                            selected.path, selected.bytes)
            /\ rs' = afterResolveMagnetUrl(rs, fileReference(rs.torrentId, selected.id))

\* The first RD.torrents.info(torrentId) of resolveMagnetUrl settled.
RsInfo ==
    /\ rs.pc = "info"
    /\ \/ /\ rs' = rsThrown(rs, "info", <<resolveMagnetUrlCatch, outerCatch(rs)>>)
          /\ UNCHANGED immediates
       \/ \E info \in ResolveInfos :
            IF ~info.data
            THEN rs' = rsGaveUp(rs, "info") /\ UNCHANGED immediates
            ELSE IF ~info.hasLinks
                 THEN /\ rs' = [rs EXCEPT !.pc = "infoAgain", !.infoCalls = @ + 1]
                      /\ UNCHANGED immediates
                 ELSE RsSelect(info)
    /\ UNCHANGED <<lc, lcRuns, torrentIdsToDelete, mongoEnabled, nextTorrentId, added, gateEval,
                   searchVars, storeVars, packVars, abortVars>>

\* The second info read, issued after delay(200), settled.  It reads info.data.links
\* unguarded: an answer without data throws.
RsInfoAgain ==
    /\ rs.pc = "infoAgain"
    /\ \/ /\ rs' = rsThrown(rs, "info", <<resolveMagnetUrlCatch, outerCatch(rs)>>)
          /\ UNCHANGED immediates
       \/ \E info \in ResolveInfos :
            IF ~info.data
            THEN /\ rs' = rsThrown(rs, "info",
                                   <<resolveMagnetUrlCatch, outerCatch(rs)>>)
                 /\ UNCHANGED immediates
            ELSE IF ~info.hasLinks
                 THEN rs' = rsGaveUp(rs, "info") /\ UNCHANGED immediates
                 ELSE RsSelect(info)
    /\ UNCHANGED <<lc, lcRuns, torrentIdsToDelete, mongoEnabled, nextTorrentId, added, gateEval,
                   searchVars, storeVars, packVars, abortVars>>

\* unrestrictUrl on a file reference: RD.torrents.info(torrentId) settled; the file is
\* looked up by id (f.id.toString() throws on a file without id) and its link read.
RsUnrestrictInfo ==
    /\ rs.pc = "unrestrictInfo"
    /\ \/ rs' = rsThrown(rs, "info", <<unrestrictUrlCatch, outerCatch(rs)>>)
       \/ \E info \in ResolveInfos :
            LET idx == findIndex(info, rs.ref.fileId)
                reached == IF idx = 0 THEN DOMAIN info.files ELSE 1..idx
            IN rs' = IF ~info.data \/ ~info.hasLinks THEN rsGaveUp(rs, "info")
                     ELSE IF \E i \in reached : info.files[i].id = <<>>
                     THEN rsThrown(rs, "fileLookup",
                                   <<unrestrictUrlCatch, outerCatch(rs)>>)
                     ELSE IF idx = 0 THEN rsGaveUp(rs, "fileLookup")
                     ELSE IF linkAt(info, idx) \in {"", "undefined"}
                     THEN rsGaveUp(rs, "links")
                     ELSE [rs EXCEPT !.pc = "unrestrictLink",
                                     !.directLink = linkAt(info, idx),
                                     !.unrestrictCalls = @ + 1]
    /\ UNCHANGED <<verifyVars, gateEval, searchVars, storeVars, packVars, abortVars>>

\* RD.unrestrict.link(...) settled: return response?.data?.download || null.
RsUnrestrictLink ==
    /\ rs.pc = "unrestrictLink"
    /\ \E outcome \in {"download", "empty", "throws"} :
         rs' = CASE outcome = "download" ->
                      [rs EXCEPT !.pc = "done", !.outcome = "resolved",
                                 !.result = [kind |-> "http", text |-> rs.directLink]]
                 [] outcome = "empty" -> rsGaveUp(rs, "unrestrict")
                 [] outcome = "throws" ->
                      rsThrown(rs, "unrestrict", <<unrestrictUrlCatch, outerCatch(rs)>>)
    /\ UNCHANGED <<verifyVars, gateEval, searchVars, storeVars, packVars, abortVars>>

InitResolve ==
    /\ IdleGate
    /\ IdleSearch
    /\ IdleStore
    /\ IdlePack
    /\ lc = lcIdle
    /\ lcRuns = 0
    /\ torrentIdsToDelete = {}
    /\ immediates = <<>>
    /\ mongoEnabled \in BOOLEAN
    /\ nextTorrentId \in {1, 7}
    /\ added = {}
    /\ \/ \E url \in EncodedUrls :
              rs = [rsIdle EXCEPT !.pc = "called", !.entry = "resolveStreamUrl",
                                  !.url = url, !.outcome = "pending"]
       \/ \E url \in HostUrls :
              rs = [rsIdle EXCEPT !.pc = "called", !.entry = "unrestrictUrl",
                                  !.url = url, !.outcome = "pending"]

NextResolve ==
    \/ RsCall \/ RsListing \/ RsAddMagnet \/ RsSelectFiles \/ RsInfo \/ RsInfoAgain
    \/ RsUnrestrictInfo \/ RsUnrestrictLink

SpecResolve == InitResolve /\ [][NextResolve]_vars

\* Every provider call settles (the call gate's timeout discipline) and the event loop
\* runs the continuation.
SpecResolveFair == InitResolve /\ [][NextResolve]_vars /\ WF_vars(NextResolve)

(***************************************************************************)
(* mongo-cache.js: the store.  The collection is a set of documents; the   *)
(* server applies one updateOne at a time, and an upsert that matches no   *)
(* document inserts one, subject to the unique index on (service, hash).   *)
(***************************************************************************)
ServiceRd == <<"r", "d">>
ServiceRdUpper == <<"R", "D">>

\* The records callers pass: with release metadata; the same pair in upper case with
\* the hash only; another hash; and one without hash.  size -1 stands for a size that
\* is not a number.
StoreRecords ==
    { [service |-> ServiceRd, hash |-> HashAb, fileName |-> "a.mkv", size |-> 3,
       releaseKey |-> <<"movie", "tt1">>, category |-> "Remux", resolution |-> "2160p"],
      [service |-> ServiceRdUpper, hash |-> HashAbUpper, fileName |-> "", size |-> -1,
       releaseKey |-> <<>>, category |-> "", resolution |-> ""],
      [service |-> ServiceRd, hash |-> HashBe, fileName |-> "b.mkv", size |-> 5,
       releaseKey |-> <<"movie", "tt1">>, category |-> "BluRay", resolution |-> "1080p"],
      [service |-> ServiceRd, hash |-> <<>>, fileName |-> "c.mkv", size |-> 7,
       releaseKey |-> <<>>, category |-> "", resolution |-> ""] }

\* The batches given to upsertCachedMagnets: the empty one, and the batches of two
\* records that hold the upper-case record first.
StoreBatches ==
    {q \in SeqsUpTo(StoreRecords, 2) :
        q = <<>> \/ (Len(q) = 2 /\ q[1].hash = HashAbUpper /\ q[2] # q[1])}

normalizeKey_AsGiven(value) == value

\* String(record.service || '').toLowerCase(), String(record.hash || '').toLowerCase()
normalizeKey(value) == toLowerCase(value)

\* record.fileName || null, record.category || null, record.resolution || null
orNull(text) == IF text = "" THEN "null" ELSE text

\* ttlDate(): Date.now() plus Number(config.MONGO_CACHE_TTL_DAYS || 30) days.
ttlDate(now, ttlDays) == now + (IF ttlDays = <<>> \/ ttlDays[1] = 0 THEN 30 ELSE ttlDays[1])

\* The updateOne built for a record at time now: filter { service, hash }, the $set
\* fields, the $setOnInsert field, upsert: true.
updateOneFor(record, now) ==
    [filter |-> [service |-> normalizeKey(record.service), hash |-> normalizeKey(record.hash)],
     set |-> [service |-> normalizeKey(record.service),
              hash |-> normalizeKey(record.hash),
              fileName |-> orNull(record.fileName),
              size |-> record.size,
              releaseKey |-> record.releaseKey,
              category |-> orNull(record.category),
              resolution |-> orNull(record.resolution),
              updatedAt |-> now,
              expiresAt |-> ttlDate(now, <<>>)],
     setOnInsert |-> [createdAt |-> now],
     input |-> record, phase |-> "match"]

wellFormed_Any(record) == TRUE

\* if (!service || !hash) return null
wellFormed(record) == normalizeKey(record.service) # <<>> /\ normalizeKey(record.hash) # <<>>

\* records.map(...).filter(Boolean)
bulkOperations(records, now) ==
    LET kept == SelectSeq(records, wellFormed)
    IN [i \in DOMAIN kept |-> updateOneFor(kept[i], now)]

matches(doc, filter) == doc.service = filter.service /\ doc.hash = filter.hash

\* The document an upsert leaves: the $set fields over the matched document, or over a
\* new one that takes the $setOnInsert field.
updatedDocument_Replace(doc, op) == op.setOnInsert @@ op.set
updatedDocument_KeepRelease(doc, op) ==
    [createdAt |-> doc.createdAt] @@
    [op.set EXCEPT !.releaseKey = IF @ = <<>> THEN doc.releaseKey ELSE @,
                   !.category = IF @ = "null" THEN doc.category ELSE @,
                   !.resolution = IF @ = "null" THEN doc.resolution ELSE @]
updatedDocument(doc, op) == [createdAt |-> doc.createdAt] @@ op.set
insertedDocument(op) == op.setOnInsert @@ op.set

\* col.createIndex({ service: 1, hash: 1 }, { unique: true }) of initMongo.
uniqueIndex == TRUE

nonStoreVars == <<verifyVars, gateEval, searchVars, resolveVars, packVars, abortVars>>

\* q without its i-th element.
removeAt(q, i) == SubSeq(q, 1, i - 1) \o SubSeq(q, i + 1, Len(q))

\* catch (error) { console.error(...); return false; }
upsertCatch_Rethrow == "rejected"
upsertCatch == "false"

\* A call that has returned: its locals are gone, its value stays.
returned(value) == [writerIdle EXCEPT !.pc = "done", !.ret = value]

\* isEnabled(): Boolean(config.MONGO_CACHE_ENABLED && config.MONGO_URI)
isEnabled_Always == TRUE
isEnabled == mongoEnabled

\* The callers are told apart by the order in which they first call.
mayCall(w) ==
    /\ writers[w].pc \in {"idle", "done"}
    /\ w = "w2" => writers["w1"].pc # "idle"

\* upsertCachedMagnet / upsertCachedMagnets up to the first await: false at once with
\* the store disabled (or an empty batch); otherwise getCollection() awaits initMongo().
storeBegin(kind, records) ==
    IF ~isEnabled \/ (kind = "many" /\ records = <<>>)
    THEN returned("false")
    ELSE [writerIdle EXCEPT !.pc = "getCollection", !.kind = kind, !.records = records]

\* initMongo(): if (initPromise) return initPromise; otherwise the one initialization
\* is started.
initMongo(promise) == IF promise = "null" THEN "pending" ELSE promise

\* initPromise = (async () => { const { MongoClient } = await import('mongodb'); ...
\* the initialization a call of initMongo starts runs up to its first await.
startInit(m, promise) == IF promise = "null" THEN [m EXCEPT !.phase = "import"] ELSE m

\* getCollection(): if (!isEnabled()) return null; await initMongo();
getCollectionCalled(m, promise) == IF isEnabled THEN startInit(m, promise) ELSE m

UpsertCachedMagnet ==
    /\ storeCalls < MaxStoreCalls
    /\ storeCalls' = storeCalls + 1
    /\ \E w \in Writers, record \in StoreRecords :
         /\ mayCall(w)
         /\ writers' = [writers EXCEPT ![w] = storeBegin("one", <<record>>)]
    /\ initPromise' = IF isEnabled THEN initMongo(initPromise) ELSE initPromise
    /\ mongo' = getCollectionCalled(mongo, initPromise)
    /\ UNCHANGED <<documents, applied, clock, queryVars, nonStoreVars>>

UpsertCachedMagnets ==
    /\ storeCalls < MaxStoreCalls
    /\ storeCalls' = storeCalls + 1
    /\ \E w \in Writers, records \in StoreBatches :
         /\ mayCall(w)
         /\ writers' = [writers EXCEPT ![w] = storeBegin("many", records)]
         /\ initPromise' = IF isEnabled /\ records # <<>> THEN initMongo(initPromise)
                           ELSE initPromise
         /\ mongo' = IF records # <<>> THEN getCollectionCalled(mongo, initPromise) ELSE mongo
    /\ UNCHANGED <<documents, applied, clock, queryVars, nonStoreVars>>

\* The initialization (connect, createIndex x 4) settles.
InitMongoSettles ==
    /\ initPromise = "pending"
    /\ initPromise' \in {"fulfilled", "rejected"}
    /\ mongo' = [mongo EXCEPT !.phase = "done",
                              !.opened = IF mongo.phase = "import" THEN @ + 1 ELSE @]
    /\ UNCHANGED <<documents, writers, applied, storeCalls, clock, queryVars, nonStoreVars>>

\* getCollection() settled.  A rejected initialization goes to the catch block (false).
\* Otherwise the record is normalised and its updateOne sent, or the batch is mapped to
\* operations and sent with bulkWrite(operations, { ordered: false }).
StoreSend ==
    \E w \in Writers :
        /\ writers[w].pc = "getCollection"
        /\ initPromise \in {"fulfilled", "rejected"}
        /\ clock' = clock + 1
        /\ LET me == writers[w]
               ops == bulkOperations(me.records, clock')
           IN writers' = [writers EXCEPT ![w] =
                  IF initPromise = "rejected" THEN returned(upsertCatch)
                  ELSE IF ops # <<>>
                  THEN [me EXCEPT !.pc = "writing", !.ops = ops, !.now = clock']
                  ELSE returned(IF me.kind = "one" THEN "false" ELSE "true")]
        /\ UNCHANGED <<documents, initPromise, mongo, applied, storeCalls, queryVars, nonStoreVars>>

\* The server takes up an updateOne: a matching document is updated in place; with
\* none, the upsert goes on to insert.
ServerMatch ==
    \E w \in Writers :
      \E i \in DOMAIN writers[w].ops :
        LET op == writers[w].ops[i]
            hits == {d \in documents : matches(d, op.filter)}
        IN /\ op.phase = "match"
           /\ IF hits # {}
              THEN \E d \in hits :
                     /\ documents' = (documents \ {d}) \cup {updatedDocument(d, op)}
                     /\ applied' = Append(applied, [writer |-> w, input |-> op.input,
                                                    updatedAt |-> op.set.updatedAt])
                     /\ writers' = [writers EXCEPT ![w].ops = removeAt(@, i)]
              ELSE /\ writers' = [writers EXCEPT ![w].ops[i].phase = "insert"]
                   /\ UNCHANGED <<documents, applied>>
           /\ UNCHANGED <<initPromise, mongo, storeCalls, clock, queryVars, nonStoreVars>>

\* The insert of an upsert.  Under the unique index an insert that meets a document of
\* the same (service, hash), written meanwhile, fails with a duplicate key error: the
\* server retries the upsert as an update, or reports the error to the caller.
ServerInsert ==
    \E w \in Writers :
      \E i \in DOMAIN writers[w].ops :
        LET op == writers[w].ops[i]
        IN /\ op.phase = "insert"
           /\ IF uniqueIndex /\ \E d \in documents : matches(d, op.filter)
              THEN /\ \/ writers' = [writers EXCEPT ![w].ops[i].phase = "match"]
                      \/ writers' = [writers EXCEPT ![w].ops = removeAt(@, i),
                                                    ![w].failed = TRUE]
                   /\ UNCHANGED <<documents, applied>>
              ELSE /\ documents' = documents \cup {insertedDocument(op)}
                   /\ applied' = Append(applied, [writer |-> w, input |-> op.input,
                                                  updatedAt |-> op.set.updatedAt])
                   /\ writers' = [writers EXCEPT ![w].ops = removeAt(@, i)]
           /\ UNCHANGED <<initPromise, mongo, storeCalls, clock, queryVars, nonStoreVars>>

\* The connection fails under a call: what it has not yet written is not applied.
ServerError ==
    \E w \in Writers :
        /\ writers[w].ops # <<>>
        /\ writers' = [writers EXCEPT ![w].ops = <<>>, ![w].failed = TRUE]
        /\ UNCHANGED <<documents, initPromise, mongo, applied, storeCalls, clock, queryVars,
                       nonStoreVars>>

\* await c.updateOne(...) / await c.bulkWrite(...) settled: return true, or from the
\* catch block false.
StoreReturn ==
    \E w \in Writers :
        /\ writers[w].pc = "writing" /\ writers[w].ops = <<>>
        /\ writers' = [writers EXCEPT ![w] =
                          returned(IF @.failed THEN upsertCatch ELSE "true")]
        /\ UNCHANGED <<documents, initPromise, mongo, applied, storeCalls, clock, queryVars,
                       nonStoreVars>>

InitStore ==
    /\ IdleGate
    /\ IdleSearch
    /\ IdleResolve
    /\ IdleStore
    /\ IdlePack
    /\ lc = lcIdle
    /\ lcRuns = 0
    /\ torrentIdsToDelete = {}
    /\ immediates = <<>>
    /\ mongoEnabled \in BOOLEAN
    /\ nextTorrentId = 1
    /\ added = {}

NextStore ==
    \/ UpsertCachedMagnet \/ UpsertCachedMagnets \/ InitMongoSettles \/ StoreSend
    \/ ServerMatch \/ ServerInsert \/ ServerError \/ StoreReturn

SpecStore == InitStore /\ [][NextStore]_vars

(***************************************************************************)
(* The reads of mongo-cache.js: getCachedHashes, getCachedRecord and       *)
(* getReleaseCounts, against a collection that earlier writes have filled, *)
(* while time passes, the TTL monitor of the server removes expired        *)
(* documents and one more write call runs.                                 *)
(***************************************************************************)
HashCd == <<"c", "d">>
HashCe == <<"c", "e">>
ReleaseKeyTt1 == <<"movie", "tt1">>

\* The document that the first upsert of a record at time now leaves in the collection.
storedAt(record, now) == insertedDocument(updateOneFor(record, now))

\* Records that earlier calls have written besides those of StoreRecords: one without
\* category and resolution, and a second Remux 2160p, both of the release tt1.
RecordCd ==
    [service |-> ServiceRd, hash |-> HashCd, fileName |-> "c.mkv", size |-> 4,
     releaseKey |-> ReleaseKeyTt1, category |-> "", resolution |-> ""]
RecordCe ==
    [service |-> ServiceRd, hash |-> HashCe, fileName |-> "e.mkv", size |-> 6,
     releaseKey |-> ReleaseKeyTt1, category |-> "Remux", resolution |-> "2160p"]
RecordAb == CHOOSE r \in StoreRecords : r.hash = HashAb

\* The collections the reads start from: empty, or left by writes made 30 and 29 days
\* before (the TTL is 30 days, so the older documents expire as soon as a day passes).
StoredCollections ==
    { {},
      {storedAt(RecordCd, -30), storedAt(RecordCe, -29)},
      {storedAt(RecordAb, -29), storedAt(RecordCd, -29), storedAt(RecordCe, -30)} }

\* The arguments of the reads.  given is Array.isArray(hashes).
HashRequests ==
    { [service |-> ServiceRd, given |-> FALSE, hashes |-> <<>>],
      [service |-> ServiceRd, given |-> TRUE, hashes |-> <<>>],
      [service |-> ServiceRdUpper, given |-> TRUE, hashes |-> <<HashAbUpper>>],
      [service |-> ServiceRd, given |-> TRUE, hashes |-> <<HashAb, <<>>, HashCd>>] }
RecordRequests ==
    { [service |-> ServiceRd, hash |-> HashAb],
      [service |-> ServiceRdUpper, hash |-> HashAbUpper],
      [service |-> ServiceRd, hash |-> HashCe] }
CountRequests ==
    { [service |-> ServiceRdUpper, releaseKey |-> ReleaseKeyTt1],
      [service |-> ServiceRd, releaseKey |-> <<"movie", "tt2">>],
      [service |-> ServiceRd, releaseKey |-> <<>>] }

\* const empty = { byCategory: {}, byCategoryResolution: {}, total: 0 }
emptyCounts == [kind |-> "counts", byCategory |-> <<>>, byCategoryResolution |-> <<>>,
                total |-> 0]
emptySet == [kind |-> "set", hashes |-> {}]
Rejected == [kind |-> "rejected"]

\* hashes.map(h => String(h || '').toLowerCase()).filter(Boolean)
lowerHashes(hashes) ==
    LET lower == [i \in DOMAIN hashes |-> toLowerCase(hashes[i])]
        present(h) == h # <<>>
    IN SelectSeq(lower, present)

\* c.aggregate([{ $match: { service, hash: { $in: lower } } },
\*              { $group: { _id: null, hashes: { $addToSet: "$hash" } } }]) and
\* cursor.next(): result ? result.hashes : []
aggregateHashes(docs, service, lower) ==
    {d.hash : d \in {e \in docs : /\ e.service = toLowerCase(service)
                                   /\ \E i \in DOMAIN lower : lower[i] = e.hash}}

\* c.findOne({ service: ...toLowerCase(), hash: ...toLowerCase() }): the documents it
\* can answer with.
findOne_Any(docs, service, hash) == docs
findOne(docs, service, hash) ==
    {d \in docs : d.service = toLowerCase(service) /\ d.hash = toLowerCase(hash)}

\* c.find({ service: svc, releaseKey: rel }, { projection: { category, resolution } }):
\* the documents of the cursor, in the order the server gives them.
RECURSIVE inSomeOrder(_)
inSomeOrder(S) ==
    IF S = {} THEN <<>>
    ELSE LET x == CHOOSE y \in S : TRUE IN <<x>> \o inSomeOrder(S \ {x})
find(docs, service, releaseKey) ==
    LET hits == inSomeOrder({d \in docs : /\ d.service = toLowerCase(service)
                                          /\ d.releaseKey = releaseKey})
    IN [i \in DOMAIN hits |-> [category |-> hits[i].category,
                               resolution |-> hits[i].resolution]]

\* doc.category || 'Other', doc.resolution || 'unknown'
keyOrDefault_AsStored(value, default) == value
keyOrDefault(value, default) == IF value = "null" THEN default ELSE value

\* byCategory[cat] = (byCategory[cat] || 0) + 1
increment(counts, key) ==
    IF key \in DOMAIN counts THEN [counts EXCEPT ![key] = @ + 1] ELSE counts @@ (key :> 1)

\* for await (const doc of cursor) { ... }
RECURSIVE countDocuments(_, _)
countDocuments(cursor, counts) ==
    IF cursor = <<>> THEN counts
    ELSE LET doc == Head(cursor)
             cat == keyOrDefault(doc.category, "Other")
             res == keyOrDefault(doc.resolution, "unknown")
             nested == counts.byCategoryResolution
         IN countDocuments(Tail(cursor),
              [kind |-> "counts",
               byCategory |-> increment(counts.byCategory, cat),
               byCategoryResolution |->
                   IF cat \in DOMAIN nested
                   THEN [nested EXCEPT ![cat] = increment(@, res)]
                   ELSE nested @@ (cat :> (res :> 1)),
               total |-> counts.total + 1])

\* A read that has settled: its arguments stay for the record, its value is given.
readReturned(me, value) == [me EXCEPT !.pc = "done", !.ret = value]

\* A read up to its first await: the empty value at once with the store disabled;
\* otherwise getCollection() awaits initMongo().
readBegin(kind, request, empty) ==
    LET me == [readerIdle EXCEPT !.kind = kind, !.service = request.service,
                                 !.calledAt = clock]
    IN IF ~isEnabled THEN readReturned(me, empty)
       ELSE [me EXCEPT !.pc = "getCollection"]

readCalled ==
    /\ queries < MaxQueries
    /\ reader.pc \in {"idle", "done"}
    /\ queries' = queries + 1
    /\ initPromise' = IF isEnabled THEN initMongo(initPromise) ELSE initPromise
    /\ mongo' = getCollectionCalled(mongo, initPromise)
    /\ UNCHANGED <<documents, writers, applied, storeCalls, clock, nonStoreVars>>

GetCachedHashes ==
    /\ \E request \in HashRequests :
         reader' = [readBegin("hashes", request, emptySet) EXCEPT
                       !.given = request.given, !.hashes = request.hashes]
    /\ readCalled

GetCachedRecord ==
    /\ \E request \in RecordRequests :
         reader' = [readBegin("record", request, Null) EXCEPT
                       !.given = TRUE, !.hashes = <<request.hash>>]
    /\ readCalled

GetReleaseCounts ==
    /\ \E request \in CountRequests :
         reader' = [readBegin("counts", request, emptyCounts) EXCEPT
                       !.releaseKey = request.releaseKey]
    /\ readCalled

\* await getCollection() settled.  None of the reads awaits it inside a try block: a
\* rejected initialization rejects the read.  Otherwise the arguments are tested and
\* the query is sent.
QuerySend ==
    /\ reader.pc = "getCollection"
    /\ initPromise \in {"fulfilled", "rejected"}
    /\ reader' =
         IF initPromise = "rejected" THEN readReturned(reader, Rejected)
         ELSE IF /\ reader.kind = "hashes"
                 /\ (~reader.given \/ lowerHashes(reader.hashes) = <<>>)
         THEN readReturned(reader, emptySet)
         ELSE IF /\ reader.kind = "counts"
                 /\ (reader.service = <<>> \/ reader.releaseKey = <<>>)
         THEN readReturned(reader, emptyCounts)
         ELSE [reader EXCEPT !.pc = "querying"]
    /\ UNCHANGED <<documents, initPromise, mongo, writers, applied, storeCalls, clock, queries,
                   nonStoreVars>>

\* The server evaluates the query over the collection as it is, and the read returns
\* what it makes of the answer.
QueryAnswer ==
    /\ reader.pc = "querying"
    /\ LET seen == [reader EXCEPT !.answered = TRUE, !.evalDocs = documents]
       IN \/ /\ reader.kind = "hashes"
             /\ reader' = readReturned(seen,
                   [kind |-> "set",
                    hashes |-> aggregateHashes(documents, reader.service,
                                               lowerHashes(reader.hashes))])
          \/ /\ reader.kind = "record"
             /\ LET hits == findOne(documents, reader.service, reader.hashes[1])
                IN IF hits = {} THEN reader' = readReturned(seen, Null)
                   ELSE \E d \in hits :
                          reader' = readReturned(seen, [kind |-> "record", doc |-> d])
          \/ /\ reader.kind = "counts"
             /\ reader' = readReturned(seen,
                   countDocuments(find(documents, reader.service, reader.releaseKey),
                                  emptyCounts))
    /\ UNCHANGED <<documents, initPromise, mongo, writers, applied, storeCalls, clock, queries,
                   nonStoreVars>>

\* The query fails on the server or on the way.  getReleaseCounts catches the error and
\* returns empty; the other two reads have no try block and reject.
QueryFails ==
    /\ reader.pc = "querying"
    /\ reader' = readReturned(reader,
                    IF reader.kind = "counts" THEN emptyCounts ELSE Rejected)
    /\ UNCHANGED <<documents, initPromise, mongo, writers, applied, storeCalls, clock, queries,
                   nonStoreVars>>

\* A day passes.  No call takes that long: the clock moves between the calls.
Tick ==
    /\ clock < MaxClock
    /\ reader.pc \in {"idle", "done"}
    /\ \A w \in Writers : writers[w].pc \in {"idle", "done"}
    /\ clock' = clock + 1
    /\ UNCHANGED <<documents, initPromise, mongo, writers, applied, storeCalls, queryVars,
                   nonStoreVars>>

\* createIndex({ expiresAt: 1 }, { expireAfterSeconds: 0 }): the TTL monitor of the
\* server, a background task, removes a document whose expiresAt has passed.
TtlPurge ==
    /\ \E d \in documents :
         /\ d.expiresAt < clock
         /\ documents' = documents \ {d}
    /\ UNCHANGED <<initPromise, mongo, writers, applied, storeCalls, clock, queryVars,
                   nonStoreVars>>

\* The collection as earlier calls have left it; one more write call may run.
InitQuery ==
    /\ IdleGate
    /\ IdleSearch
    /\ IdleResolve
    /\ IdlePack
    /\ lc = lcIdle
    /\ lcRuns = 0
    /\ torrentIdsToDelete = {}
    /\ immediates = <<>>
    /\ mongoEnabled \in BOOLEAN
    /\ nextTorrentId = 1
    /\ added = {}
    /\ documents \in StoredCollections
    /\ initPromise = "null"
    /\ mongo = mongoIdle
    /\ writers = [w \in Writers |-> writerIdle]
    /\ applied = <<>>
    /\ storeCalls = MaxStoreCalls - 1
    /\ clock = 0
    /\ reader = readerIdle
    /\ queries = 0

NextQuery ==
    \/ GetCachedHashes \/ GetCachedRecord \/ GetReleaseCounts
    \/ QuerySend \/ QueryAnswer \/ QueryFails \/ Tick \/ TtlPurge
    \/ UpsertCachedMagnet \/ UpsertCachedMagnets \/ InitMongoSettles \/ StoreSend
    \/ ServerMatch \/ ServerInsert \/ StoreReturn

SpecQuery == InitQuery /\ [][NextQuery]_vars

(***************************************************************************)
(* rdHandler.batchCheckSeasonPacks: the packs are inspected one after the  *)
(* other for the file of the target episode.                               *)
(***************************************************************************)
\* const MAX_PACKS_TO_INSPECT = config.MAX_PACKS_TO_INSPECT || 3
MAX_PACKS_TO_INSPECT == 3

\* The id of a torrent the account already holds.
ExistingTorrentId == 9

\* The files of a pack as the provider lists them, with what PTT.parse makes of the
\* path (season 0: no season and episode parsed).  The target episode is S01E02.
PackFileKinds ==
    { [path |-> PathMkv, bytes |-> 3, id |-> 1, season |-> 1, episode |-> 2],
      [path |-> PathMkvUpper, bytes |-> 5, id |-> 2, season |-> 1, episode |-> 2],
      [path |-> PathMkv, bytes |-> 9, id |-> 3, season |-> 1, episode |-> 3],
      [path |-> PathRarUpper, bytes |-> 7, id |-> 4, season |-> 1, episode |-> 2],
      [path |-> PathNfo, bytes |-> 1, id |-> 5, season |-> 0, episode |-> 0] }

PackListings == SeqsUpTo(PackFileKinds, MaxPackFiles)

PackHashLists == { <<HashAbUpper>>, <<HashAb, HashBe>> }

\* parsed.season === season && parsed.episode === episode
matchesTarget_SeasonOnly(file, season, episode) == file.season = season
matchesTarget(file, season, episode) == file.season = season /\ file.episode = episode

\* info.data.files.filter(file => !isJunk && parsed matches the target)
matchingFiles(files, season, episode) ==
    LET keep(file) == ~isJunkPath(file.path) /\ matchesTarget(file, season, episode)
    IN SelectSeq(files, keep)

\* matchingFiles.sort((a, b) => b.bytes - a.bytes); matchingFiles[0]: the sort is
\* stable, so of the largest files the first listed is taken.
bestFile(matching) ==
    LET largest == {i \in DOMAIN matching :
                       \A j \in DOMAIN matching : matching[j].bytes <= matching[i].bytes}
    IN matching[CHOOSE i \in largest : \A j \in largest : i <= j]

\* const episodeResult = { InfoHash: hash, ..., episodeFileHint: { ... } }
episodeResult(hash, file, torrentId) ==
    [InfoHash |-> hash, Title |-> file.path, Size |-> file.bytes,
     episodeFileHint |-> [filePath |-> file.path, fileBytes |-> file.bytes,
                          torrentId |-> torrentId, fileId |-> file.id],
     isCached |-> TRUE, isFromPack |-> TRUE, packHash |-> hash]

\* catch (error) { ...; failedPackHashes.add(hash.toLowerCase()); }, then the next hash.
packFailed(me) ==
    [me EXCEPT !.pc = "next",
               !.failedPackHashes = @ \cup {toLowerCase(me.hash)}]

packFrame == UNCHANGED <<lc, lcRuns, immediates, mongoEnabled, gateEval, searchVars,
                         resolveVars, storeVars, abortVars>>

\* A call of batchCheckSeasonPacks(hashes, 1, 2): packResults and inspectedCount are
\* the call's own (508-509), failedPackHashes is the search's (446).  calls numbers the
\* calls of the search, and inspected keeps, across them, the hashes for which the
\* provider was called, each with the number of its call.
packBegin(me, hashes) ==
    [packIdle EXCEPT !.pc = "next", !.hashes = hashes, !.season = 1, !.episode = 2,
                     !.failedPackHashes = me.failedPackHashes,
                     !.inspected = me.inspected, !.calls = me.calls + 1]

PackCall ==
    /\ pack.pc = "idle"
    /\ \E hashes \in PackHashLists : pack' = packBegin(pack, hashes)
    /\ UNCHANGED <<torrentIdsToDelete, nextTorrentId, added>>
    /\ packFrame

\* for (const hash of hashes) { if (inspectedCount >= MAX_PACKS_TO_INSPECT) break; ...
PackNext ==
    /\ pack.pc = "next"
    /\ pack' = IF pack.hashes = <<>> \/ pack.inspectedCount >= MAX_PACKS_TO_INSPECT
               THEN [pack EXCEPT !.pc = "done"]
               ELSE [pack EXCEPT !.pc = "listing", !.hash = Head(pack.hashes),
                                 !.hashes = Tail(pack.hashes), !.torrentId = 0,
                                 !.inspected = Append(@, [call |-> pack.calls,
                                                          hash |-> Head(pack.hashes)])]
    /\ UNCHANGED <<torrentIdsToDelete, nextTorrentId, added>>
    /\ packFrame

registerReused_Always(toDelete, existingId) == toDelete \cup {existingId}

\* if (existingTorrent) { torrentId = existingTorrent.id; }: the id of a torrent the
\* account holds already is used, and the to-delete set is left as it is.
registerReused(toDelete, existingId) == toDelete

\* RD.torrents.get(0, 1, 100) settled: the account holds the torrent already, or not,
\* or the call threw.
PackListing ==
    /\ pack.pc = "listing"
    /\ \E outcome \in {"existing", "absent", "throws"} :
         /\ pack' = IF outcome = "existing"
                    THEN [pack EXCEPT !.pc = "info", !.torrentId = ExistingTorrentId]
                    ELSE IF outcome = "absent" THEN [pack EXCEPT !.pc = "addMagnet"]
                    ELSE packFailed(pack)
         /\ torrentIdsToDelete' =
                IF outcome = "existing"
                THEN registerReused(torrentIdsToDelete, ExistingTorrentId)
                ELSE torrentIdsToDelete
    /\ UNCHANGED <<nextTorrentId, added>>
    /\ packFrame

\* RD.torrents.addMagnet(magnet) settled: with an id, which is registered for
\* deletion; without one (continue); or it threw.
PackAddMagnet ==
    /\ pack.pc = "addMagnet"
    /\ \E outcome \in {"id", "noId", "throws"} :
         IF outcome = "id"
         THEN /\ pack' = [pack EXCEPT !.pc = "selectFiles", !.torrentId = nextTorrentId]
              /\ torrentIdsToDelete' = torrentIdsToDelete \cup {nextTorrentId}
              /\ nextTorrentId' = nextTorrentId + 1
              /\ added' = returnedTo(added, nextTorrentId, "search")
         ELSE /\ pack' = IF outcome = "noId" THEN [pack EXCEPT !.pc = "next"]
                         ELSE packFailed(pack)
              /\ UNCHANGED <<torrentIdsToDelete, nextTorrentId, added>>
    /\ packFrame

\* RD.torrents.selectFiles(torrentId, 'all') settled.
PackSelectFiles ==
    /\ pack.pc = "selectFiles"
    /\ \E throws \in BOOLEAN :
         pack' = IF throws THEN packFailed(pack) ELSE [pack EXCEPT !.pc = "info"]
    /\ UNCHANGED <<torrentIdsToDelete, nextTorrentId, added>>
    /\ packFrame

\* if (matchingFiles.length > 0) { ...; inspectedCount++; }
countsTowardsCap(matching, inspectedCount) ==
    IF Len(matching) > 0 THEN inspectedCount + 1 ELSE inspectedCount

\* RD.torrents.info(torrentId) settled: it threw, it has no files (continue), or its
\* files are filtered, sorted and the best one recorded.
packInfoFrom(listings) ==
    /\ \/ pack' = packFailed(pack)
       \/ pack' = [pack EXCEPT !.pc = "next"]
       \/ \E files \in listings :
            LET matching == matchingFiles(files, pack.season, pack.episode)
                seen == [pack EXCEPT !.pc = "next",
                                     !.listed = (pack.hash :> files) @@ @]
            IN pack' =
                 IF matching = <<>> THEN seen
                 ELSE [seen EXCEPT
                         !.packResults =
                             (pack.hash :> episodeResult(pack.hash, bestFile(matching),
                                                         pack.torrentId)) @@ @,
                         !.inspectedCount = countsTowardsCap(matching, @)]
    /\ UNCHANGED <<torrentIdsToDelete, nextTorrentId, added>>
    /\ packFrame

PackInfo ==
    /\ pack.pc = "info"
    /\ packInfoFrom(PackListings)

InitPack ==
    /\ IdleGate
    /\ IdleSearch
    /\ IdleResolve
    /\ IdleStore
    /\ IdlePack
    /\ lc = lcIdle
    /\ lcRuns = 0
    /\ torrentIdsToDelete = {}
    /\ immediates = <<>>
    /\ mongoEnabled \in BOOLEAN
    /\ nextTorrentId = 1
    /\ added = {}

NextPack ==
    \/ PackCall \/ PackNext \/ PackListing \/ PackAddMagnet \/ PackSelectFiles \/ PackInfo

SpecPack == InitPack /\ [][NextPack]_vars

(***************************************************************************)
(* Claims about liveCheckHash, checked under SpecVerify.                   *)
(***************************************************************************)

\* C1: when the single status read is downloaded or finished and some file path of the
\* listing ends, case-insensitively, with a junk extension, liveCheckHash returns
\* false, also when the listing holds a plausible video file.
C1_JunkOverridesVideo ==
    LET junk(f) == /\ f.path # Undefined
                   /\ \E ext \in JUNK_EXTENSIONS : endsWith(toLowerCase(f.path), ext)
    IN (/\ lc.pc = "done"
        /\ lc.status \in {"downloaded", "finished"}
        /\ \E i \in DOMAIN lc.files : junk(lc.files[i]))
       => lc.ret = "false"

\* The spec's case: a .rar file beside a valid 1.2 GiB .mkv file, rejected; and the
\* same with the junk extension in upper case.
C1_Witness ==
    /\ lc.pc = "done" /\ lc.status = "downloaded" /\ lc.ret = "false"
    /\ lc.files = << [id |-> 1, path |-> PathMkv, bytes |-> 1288490188],
                     [id |-> 5, path |-> PathRarUpper, bytes |-> 0] >>

\* C2: when the status read is not downloaded or finished (magnet_error, or no status
\* at all), liveCheckHash returns false after exactly one status read, without
\* inspecting the file listing and without scheduling a cache write.
C2_NonTerminalSingleRead ==
    (/\ lc.pc = "done"
     /\ lc.infoCalls >= 1
     /\ lc.status \notin {"downloaded", "finished"})
    => (/\ lc.ret = "false"
        /\ lc.infoCalls = 1
        /\ ~lc.inspected
        /\ lc.files = <<>>
        /\ lc.writes = 0)

C2_Witness ==
    /\ lc.pc = "done" /\ lc.status = "magnet_error" /\ lc.ret = "false"
    /\ lc.infoCalls = 1 /\ ~lc.inspected

\* C8 (as stated): liveCheckHash never propagates an exception, an error thrown by
\* add-magnet, select-files, the status read, file inspection or the cache write makes
\* it return false, and an id already obtained stays registered for deletion.
C8_Original ==
    /\ lc.ret # "threw"
    /\ (lc.pc = "done" /\ lc.threw # "none") => lc.ret = "false"
    /\ \A id \in 1..(nextTorrentId - 1) : id \in torrentIdsToDelete

\* C8 (amended): liveCheckHash never propagates an exception; an error thrown by
\* add-magnet, select-files, the status read or file inspection makes it return false;
\* an error thrown by the cache write is dropped and leaves the result true; every id
\* the provider assigned stays registered for deletion.
C8_NeverPropagates ==
    /\ lc.ret # "threw"
    /\ (lc.pc = "done" /\ lc.threw \in {"addMagnet", "selectFiles", "info", "inspect"})
           => lc.ret = "false"
    /\ (lc.pc = "done" /\ lc.threw = "cacheWrite") => (lc.ret = "true" /\ lc.writes = 0)
    /\ \A id \in 1..(nextTorrentId - 1) : id \in torrentIdsToDelete
    /\ lc.torrentId # 0 => lc.torrentId \in torrentIdsToDelete

\* The select-files call threw after the provider had assigned an id.
C8_Witness ==
    /\ lc.pc = "done" /\ lc.threw = "selectFiles" /\ lc.ret = "false"
    /\ lc.torrentId # 0 /\ lc.torrentId \in torrentIdsToDelete

(***************************************************************************)
(* Claims about the quota gate, checked under SpecGate.                    *)
(***************************************************************************)

\* C3: the high-res gate is true exactly when every category of {Remux, BluRay,
\* WEB/WEB-DL} that has a positive limit counts at least that limit at 2160p and at
\* least that limit at 1080p; meeting the limit at one of the two only makes it false.
C3_HighResGate ==
    LET count(cat, res) ==
            Cardinality({i \in DOMAIN gateEval.files :
                            /\ gateEval.files[i].category = cat
                            /\ gateEval.files[i].resolution = res})
    IN gateEval.evaluated =>
         (gateEval.satisfied <=>
            \A cat \in {"Remux", "BluRay", "WEB/WEB-DL"} :
                gateEval.limits[cat] > 0 =>
                    /\ count(cat, "2160p") >= gateEval.limits[cat]
                    /\ count(cat, "1080p") >= gateEval.limits[cat])

\* The spec's case: limit Remux 2 (the other two categories without a positive limit),
\* two Remux files at 2160p and two at 1080p.
C3_Witness ==
    /\ gateEval.evaluated /\ gateEval.satisfied
    /\ gateEval.limits["Remux"] = 2
    /\ gateEval.limits["BluRay"] <= 0 /\ gateEval.limits["WEB/WEB-DL"] <= 0
    /\ Len(gateEval.files) = 4
    /\ Cardinality({i \in DOMAIN gateEval.files :
                       gateEval.files[i] = [category |-> "Remux", resolution |-> "2160p"]}) = 2
    /\ Cardinality({i \in DOMAIN gateEval.files :
                       gateEval.files[i] = [category |-> "Remux", resolution |-> "1080p"]}) = 2

(***************************************************************************)
(* Claims about searchRealDebridTorrents, checked under SpecSearch and     *)
(* SpecSearchFair.                                                         *)
(***************************************************************************)

\* Every high-resolution quota counted over the personal files alone.
PersonalAloneMeetsQuotas ==
    LET limit(cat) ==
            CASE cat = "Remux" ->
                   parseIntOr(srch.env.MAX_RESULTS_REMUX,
                              parseIntOr(srch.env.MAX_RESULTS_PER_QUALITY, 2))
              [] cat = "BluRay" ->
                   parseIntOr(srch.env.MAX_RESULTS_BLURAY,
                              parseIntOr(srch.env.MAX_RESULTS_PER_QUALITY, 2))
              [] cat = "WEB/WEB-DL" ->
                   parseIntOr(srch.env.MAX_RESULTS_WEBDL,
                              parseIntOr(srch.env.MAX_RESULTS_PER_QUALITY, 2))
        count(cat, res) ==
            Cardinality({i \in DOMAIN srch.personalFiles :
                            /\ srch.personalFiles[i].category = cat
                            /\ srch.personalFiles[i].resolution = res})
    IN \A cat \in {"Remux", "BluRay", "WEB/WEB-DL"} :
           limit(cat) > 0 =>
               /\ count(cat, "2160p") >= limit(cat)
               /\ count(cat, "1080p") >= limit(cat)

\* The quotas counted over the records of the store alone.
StoreAloneMeetsQuotas ==
    \A cat \in {"Remux", "BluRay", "WEB/WEB-DL"} :
        rdQualityLimits(srch.env)[cat] > 0 =>
            \A res \in {"2160p", "1080p"} :
                srch.mongoCounts[cat][res] >= rdQualityLimits(srch.env)[cat]

\* C4: when the personal candidates of the release alone satisfy every high-res quota,
\* the search invokes no producer, makes no add-magnet call and no verification, leaves
\* the external phases unentered, and returns exactly the personal candidates, each once.
C4_PersonalAloneSkipsProducers ==
    (srch.gated /\ PersonalAloneMeetsQuotas) =>
        /\ scraperCalls = 0
        /\ lcRuns = 0 /\ lc.addCalls = 0 /\ torrentIdsToDelete = {}
        /\ srch.pc \in {"finally", "done"}
        /\ srch.externalTorrents = <<>> /\ srch.cachedResults = <<>>
        /\ Len(srch.result) = Len(srch.personalFiles)
        /\ \A i \in DOMAIN srch.personalFiles :
               \E j \in DOMAIN srch.result :
                   /\ srch.result[j].isPersonal
                   /\ srch.result[j].name = srch.personalFiles[i].name
                   /\ srch.result[j].size = srch.personalFiles[i].size

\* Limit Remux 1 and no other positive limit; one personal Remux file at 2160p and one
\* at 1080p; producers enabled; the search has resolved with the two personal files.
C4_Witness ==
    /\ srch.pc = "done" /\ srch.outcome = "resolved" /\ srch.earlyExit
    /\ srch.scrapers = 2 /\ scraperCalls = 0
    /\ rdQualityLimits(srch.env)["Remux"] = 1
    /\ srch.personalFiles = <<PersonalRemux1080, PersonalRemux2160>>
    /\ Len(srch.result) = 2 /\ srch.result[1].name = PersonalRemux2160.name

C6_SearchNeverRejects ==
    /\ srch.outcome # "rejected"
    /\ srch.outcome = "resolved" => srch.threw \in {"none", "scrapers", "process", "liveCheckHash"}

\* The ids the provider hands out in one search.
ProviderIds == 1..(2 * MaxExternal)

\* C9: no delete call is issued before the outcome of the search is determined, and
\* every id registered in the to-delete set eventually receives a delete call, once the
\* outcome is determined: after a normal return, after an exception, and after the
\* search's controller was aborted by a newer search.
C9_RegisteredIdsGetDeleteCall ==
    /\ [](deleteLog # <<>> => srch.pc = "done")
    /\ \A id \in ProviderIds :
           (id \in torrentIdsToDelete)
               ~> (/\ srch.pc = "done"
                   /\ \E i \in DOMAIN deleteLog : deleteLog[i] = id)

\* A search that failed with an exception after a newer search had aborted its
\* controller, with two ids registered: both have received their delete call.
C9_Witness ==
    /\ srch.pc = "done" /\ srch.threw = "process" /\ globalAbortController = 2
    /\ Cardinality(torrentIdsToDelete) >= 2
    /\ cleanup.pc = "done"
    /\ \A id \in torrentIdsToDelete : \E i \in DOMAIN deleteLog : deleteLog[i] = id

(***************************************************************************)
(* Claims about the stream resolution chain, checked under SpecResolve.    *)
(***************************************************************************)

\* C7 (as stated): resolveStreamUrl never rejects, and a failure at any step of the
\* chain, the torrent listing included, makes it resolve to null.
C7_Original ==
    /\ rs.outcome # "rejected"
    /\ (rs.pc = "done" /\ rs.failed # {}) => rs.result = Null

\* C7 (amended): resolveStreamUrl never rejects; a failure of the decoding, the hash
\* extraction, add-magnet, select-files, an info or link read, or unrestrict makes it
\* resolve to null; a failed torrent listing is passed over and the chain goes on with
\* one add-magnet call.
C7_ResolveNeverRejects ==
    /\ rs.outcome # "rejected"
    /\ rs.pc = "done" => rs.outcome = "resolved"
    /\ (rs.pc = "done" /\ rs.failed \ {"listing"} # {}) => rs.result = Null
    /\ (rs.pc = "done" /\ rs.result # Null) => rs.result.kind = "http"
    /\ (rs.pc \notin {"listing", "addMagnet"} /\ "listing" \in rs.failed) => rs.addCalls = 1

\* A magnet whose listing, add-magnet, select-files and info reads went through and
\* whose unrestrict call threw: resolved to null.
C7_Witness ==
    /\ rs.pc = "done" /\ rs.outcome = "resolved" /\ rs.result = Null
    /\ rs.url.kind = "magnet" /\ rs.failed = {"unrestrict"}
    /\ rs.addCalls = 1 /\ rs.unrestrictCalls = 1

(***************************************************************************)
(* Claims about the store, checked under SpecStore.                        *)
(***************************************************************************)

\* C10: after any interleaving of upsertCachedMagnet and upsertCachedMagnets calls the
\* collection holds at most one document per (lowercased service, lowercased hash),
\* also when two callers write the same pair concurrently or in different letter case,
\* and the metadata of every document is that of the last write applied to its pair.
C10_OneRecordPerPair ==
    LET samePair(a, b) == /\ toLowerCase(a.service) = toLowerCase(b.service)
                          /\ toLowerCase(a.hash) = toLowerCase(b.hash)
    IN /\ \A d1, d2 \in documents : samePair(d1, d2) => d1 = d2
       /\ \A d \in documents :
            LET writes == {i \in DOMAIN applied : samePair(applied[i].input, d)}
                last == applied[CHOOSE i \in writes : \A j \in writes : j <= i]
            IN /\ writes # {}
               /\ d.service = toLowerCase(last.input.service)
               /\ d.hash = toLowerCase(last.input.hash)
               /\ d.fileName = (IF last.input.fileName = "" THEN "null"
                                ELSE last.input.fileName)
               /\ d.size = last.input.size
               /\ d.releaseKey = last.input.releaseKey
               /\ d.category = (IF last.input.category = "" THEN "null"
                                ELSE last.input.category)
               /\ d.resolution = (IF last.input.resolution = "" THEN "null"
                                  ELSE last.input.resolution)
               /\ d.updatedAt = last.updatedAt

\* Two callers wrote the pair (rd, ab) while both calls were under way, one with the
\* lower-case and one with the upper-case spelling: one document, with the fields of
\* the upper-case write, applied last.
C10_Witness ==
    /\ Len(applied) = 2
    /\ applied[1].writer # applied[2].writer
    /\ applied[1].input.hash = HashAb /\ applied[2].input.hash = HashAbUpper
    /\ \A w \in Writers : writers[w].pc = "writing"
    /\ Cardinality(documents) = 1
    /\ \E d \in documents : d.hash = HashAb /\ d.service = ServiceRd /\ d.fileName = "null"

(***************************************************************************)
(* createdAt of a stored record.                                           *)
(***************************************************************************)
\* C11: createdAt is set only when a record is first inserted: every document keeps
\* the time of the first write applied to its (service, hash), while its fileName and
\* updatedAt are those of the last write applied to the pair, so a second upsert of
\* the pair with another fileName leaves createdAt unchanged.
C11_CreatedAtOnlyOnInsert ==
    \A d \in documents :
        LET writes == {i \in DOMAIN applied :
                          /\ toLowerCase(applied[i].input.service) = d.service
                          /\ toLowerCase(applied[i].input.hash) = d.hash}
            first == applied[CHOOSE i \in writes : \A j \in writes : i <= j]
            last == applied[CHOOSE i \in writes : \A j \in writes : j <= i]
        IN /\ writes # {}
           /\ d.createdAt = first.updatedAt
           /\ d.updatedAt = last.updatedAt
           /\ d.fileName = orNull(last.input.fileName)

\* The pair (rd, ab) was written without a file name and then again as a.mkv: the
\* document carries the first write's createdAt and the second write's fileName and
\* updatedAt.
C11_Witness ==
    /\ Len(applied) = 2
    /\ applied[1].input.hash = HashAbUpper /\ applied[2].input.hash = HashAb
    /\ \E d \in documents :
         /\ d.hash = HashAb
         /\ d.createdAt = applied[1].updatedAt
         /\ d.updatedAt = applied[2].updatedAt
         /\ d.createdAt # d.updatedAt
         /\ d.fileName = "a.mkv"

(***************************************************************************)
(* Malformed records and failing writes.                                   *)
(***************************************************************************)
\* C15: a record with missing service or hash is never written: no applied write and
\* no document has an empty service or hash, and a call that has sent its writes
\* holds exactly one operation, pending or applied, for each well-formed record it
\* was given (the malformed ones are skipped, the others are all written unless the
\* write itself fails).
C15_MalformedNeverWritten ==
    LET complete(r) == r.service # <<>> /\ r.hash # <<>>
    IN /\ \A i \in DOMAIN applied : complete(applied[i].input)
       /\ \A d \in documents : complete(d)
       /\ \A w \in Writers :
            LET me == writers[w]
                mine == {i \in DOMAIN applied :
                            applied[i].writer = w /\ applied[i].updatedAt = me.now}
            IN (me.pc = "writing" /\ ~me.failed) =>
                 /\ \A i \in DOMAIN me.ops : complete(me.ops[i].input)
                 /\ Len(me.ops) + Cardinality(mine) = Len(SelectSeq(me.records, complete))
                 /\ \A i \in DOMAIN me.records :
                      complete(me.records[i]) =>
                          \/ \E j \in DOMAIN me.ops : me.ops[j].input = me.records[i]
                          \/ \E j \in mine : applied[j].input = me.records[i]

\* A batch of a well-formed record and one without hash has been written without a
\* failure: the store holds the well-formed record alone.
C15_Witness ==
    \E w \in Writers :
        /\ writers[w].pc = "writing" /\ writers[w].kind = "many"
        /\ writers[w].ops = <<>> /\ ~writers[w].failed
        /\ \E i \in DOMAIN writers[w].records : writers[w].records[i].hash = <<>>
        /\ Len(applied) = 1 /\ applied[1].writer = w
        /\ Cardinality(documents) = 1
        /\ \A d \in documents : d.hash = HashAb

\* C16: upsertCachedMagnet and upsertCachedMagnets always resolve to a boolean: a call
\* that returns gives true or false, and gives false when the initialization of the
\* connection was rejected or its write failed.
C16_UpsertResolvesToBoolean ==
    [][\A w \in Writers :
          (writers[w].pc # "done" /\ writers'[w].pc = "done") =>
             /\ writers'[w].ret \in {"true", "false"}
             /\ (\/ writers[w].failed
                 \/ (writers[w].pc = "getCollection" /\ initPromise = "rejected"))
                => writers'[w].ret = "false"]_vars

\* The connection could not be set up: both calls, a single write and a batch, have
\* returned false and the store is as it was.
C16_Witness ==
    /\ mongoEnabled /\ initPromise = "rejected"
    /\ \A w \in Writers : writers[w].pc = "done" /\ writers[w].ret = "false"
    /\ documents = {} /\ applied = <<>>

(***************************************************************************)
(* The reads of the store.                                                 *)
(***************************************************************************)
\* C12: getCachedRecord with the (service, hash) of an upserted record, in any letter
\* case, answers with a document of the collection whose service and hash are the
\* lowercased forms of the arguments, and answers null only when the collection holds
\* no document of that lowercased pair.
C12_GetRecordLowercased ==
    (reader.kind = "record" /\ reader.pc = "done" /\ reader.answered) =>
        LET service == toLowerCase(reader.service)
            hash == toLowerCase(reader.hashes[1])
        IN /\ reader.ret.kind \in {"record", "null"}
           /\ reader.ret.kind = "record" =>
                /\ reader.ret.doc \in reader.evalDocs
                /\ reader.ret.doc.service = service
                /\ reader.ret.doc.hash = hash
           /\ reader.ret.kind = "null" =>
                ~ \E d \in reader.evalDocs : d.service = service /\ d.hash = hash

\* The pair was upserted in upper case (RD, AB) and read back in lower case: the
\* document that write inserted is returned, with service rd and hash ab.
C12_Witness ==
    /\ Len(applied) = 1 /\ applied[1].input.hash = HashAbUpper
    /\ reader.kind = "record" /\ reader.pc = "done"
    /\ reader.service = ServiceRd /\ reader.hashes = <<HashAb>>
    /\ reader.ret.kind = "record"
    /\ reader.ret.doc.service = ServiceRd /\ reader.ret.doc.hash = HashAb
    /\ reader.ret.doc.createdAt = applied[1].updatedAt

\* C13: every element of the set getCachedHashes returns is one of the requested
\* hashes (in lower case, as the store keeps them), and an empty or absent list of
\* hashes gives the empty set, not an error.
C13_KnownHashesSubset ==
    (reader.kind = "hashes" /\ reader.pc = "done") =>
        /\ reader.ret.kind = "set" =>
             reader.ret.hashes \subseteq
                 {toLowerCase(reader.hashes[i]) : i \in DOMAIN reader.hashes}
        /\ (~reader.given \/ reader.hashes = <<>>) => reader.ret = emptySet

\* C14: no read returns or counts a document whose expiresAt is earlier than the time
\* of the call.
C14_ReadsIgnoreExpired ==
    (reader.pc = "done" /\ reader.answered) =>
        LET live == {d \in reader.evalDocs : d.expiresAt >= reader.calledAt}
        IN /\ reader.kind = "record" /\ reader.ret.kind = "record" =>
                reader.ret.doc \in live
           /\ reader.kind = "hashes" =>
                \A h \in reader.ret.hashes : \E d \in live : d.hash = h
           /\ reader.kind = "counts" =>
                reader.ret.total =
                    Cardinality({d \in live : /\ d.service = toLowerCase(reader.service)
                                              /\ d.releaseKey = reader.releaseKey})

\* C17: getCachedRecord resolves to a document or to null, and never rejects, also
\* when the connection could not be set up or the query fails.
C17_GetRecordNeverRejects ==
    (reader.kind = "record" /\ reader.pc = "done") =>
        /\ reader.ret.kind \in {"record", "null"}
        /\ ~mongoEnabled => reader.ret = Null

\* C18: while the store is disabled every operation returns at once with its empty
\* value (false, the empty set, null, the empty aggregate), and no step of a call
\* starts the initialization or changes the collection.
C18_DisabledStoreIsInert ==
    [][~mongoEnabled =>
         /\ initPromise = "null" /\ initPromise' = "null"
         /\ reader' # reader =>
              /\ reader'.pc = "done"
              /\ reader'.ret = (IF reader'.kind = "hashes" THEN emptySet
                                ELSE IF reader'.kind = "record" THEN Null
                                ELSE emptyCounts)
         /\ \A w \in Writers :
              writers'[w] # writers[w] =>
                  writers'[w].pc = "done" /\ writers'[w].ret = "false"
         /\ (reader' # reader \/ writers' # writers) =>
              documents' = documents /\ applied' = applied]_vars

\* With the store disabled over a collection that holds records of the release, the
\* counts came back empty and a write call returned false; nothing was initialized.
C18_Witness ==
    /\ ~mongoEnabled /\ initPromise = "null"
    /\ \E d \in documents : d.releaseKey = ReleaseKeyTt1
    /\ reader.pc = "done" /\ reader.kind = "counts"
    /\ reader.releaseKey = ReleaseKeyTt1 /\ reader.ret = emptyCounts
    /\ writers["w1"].pc = "done" /\ writers["w1"].ret = "false"

RECURSIVE sumOf(_)
sumOf(counts) ==
    IF DOMAIN counts = {} THEN 0
    ELSE LET key == CHOOSE k \in DOMAIN counts : TRUE
         IN counts[key] + sumOf([k \in DOMAIN counts \ {key} |-> counts[k]])

PacksListings ==
    { << [path |-> PathMkv, bytes |-> 3, id |-> 1, season |-> 1, episode |-> 2] >>,
      << [path |-> PathMkv, bytes |-> 9, id |-> 3, season |-> 1, episode |-> 3] >> }

\* One pack, or one more than MAX_PACKS_TO_INSPECT.
PacksHashLists == { <<HashAb>>, <<HashAb, HashBe, HashCd, HashCe>> }

PacksCall ==
    /\ pack.pc \in {"idle", "done"}
    /\ pack.calls < MaxPackCalls
    /\ \E hashes \in PacksHashLists :
         /\ Len(pack.inspected) + Len(hashes) <= MaxPackHashes
         /\ pack' = packBegin(pack, hashes)
    /\ UNCHANGED <<torrentIdsToDelete, nextTorrentId, added>>
    /\ packFrame

PacksInfo ==
    /\ pack.pc = "info"
    /\ packInfoFrom(PacksListings)

InitPacks ==
    /\ IdleGate
    /\ IdleSearch
    /\ IdleResolve
    /\ IdleStore
    /\ IdlePack
    /\ lc = lcIdle
    /\ lcRuns = 0
    /\ torrentIdsToDelete = {}
    /\ immediates = <<>>
    /\ mongoEnabled = TRUE
    /\ nextTorrentId = 1
    /\ added = {}

NextPacks ==
    \/ PacksCall \/ PackNext \/ PackListing \/ PackAddMagnet \/ PackSelectFiles \/ PacksInfo

SpecPacks == InitPacks /\ [][NextPacks]_vars

(***************************************************************************)
\* C20: for each pack whose files the provider listed, the file recorded is one of the
\* listed files that is not junk and whose parsed season and episode are the target's,
\* and no such file of the pack is larger; a pack without such a file has no result
\* and is not among the failed packs.
C20_PackSelectsTargetEpisode ==
    \A hash \in DOMAIN pack.listed :
        LET files == pack.listed[hash]
            junk(path) == \E ext \in JUNK_EXTENSIONS : endsWith(toLowerCase(path), ext)
            eligible == {i \in DOMAIN files :
                            /\ ~junk(files[i].path)
                            /\ files[i].season = pack.season
                            /\ files[i].episode = pack.episode}
        IN IF eligible = {}
           THEN /\ hash \notin DOMAIN pack.packResults
                /\ toLowerCase(hash) \notin pack.failedPackHashes
           ELSE /\ hash \in DOMAIN pack.packResults
                /\ \E i \in eligible :
                     LET hint == pack.packResults[hash].episodeFileHint
                     IN /\ hint.fileId = files[i].id
                        /\ hint.filePath = files[i].path
                        /\ hint.fileBytes = files[i].bytes
                        /\ \A j \in eligible : files[j].bytes <= files[i].bytes

\* Two packs were inspected.  The first lists the target episode (3 bytes) and a larger
\* file of the next episode (9 bytes): the target episode's file is recorded.  The
\* second lists only a junk file that parses to the target: no result, not failed.
C20_Witness ==
    /\ pack.pc = "done"
    /\ DOMAIN pack.listed = {HashAb, HashBe}
    /\ \E i, j \in DOMAIN pack.listed[HashAb] :
         /\ pack.listed[HashAb][i].episode = 3 /\ pack.listed[HashAb][i].bytes = 9
         /\ pack.listed[HashAb][j].episode = 2 /\ pack.listed[HashAb][j].bytes = 3
    /\ pack.packResults[HashAb].episodeFileHint.fileBytes = 3
    /\ \A i \in DOMAIN pack.listed[HashBe] : pack.listed[HashBe][i].path = PathRarUpper
    /\ pack.listed[HashBe] # <<>>
    /\ DOMAIN pack.packResults = {HashAb}
    /\ pack.failedPackHashes = {}

(***************************************************************************)
\* C21: the list a search returns, by the early exit or by the full path, is ordered
\* by descending resolution rank (unknown resolution lowest) and, within one rank, by
\* descending size: a 2160p result stands before a 720p result even when it is smaller.
C21_SortedByResolutionThenSize ==
    \A i, j \in DOMAIN srch.result :
        i < j =>
            LET a == srch.result[i]
                b == srch.result[j]
            IN /\ resolutionOrder[a.resolution] >= resolutionOrder[b.resolution]
               /\ resolutionOrder[a.resolution] = resolutionOrder[b.resolution]
                      => a.size >= b.size

\* The full path returned the verified 2160p candidate of size 2 before the personal
\* 720p file of size 7.
C21_Witness ==
    /\ srch.outcome = "resolved"
    /\ ~srch.earlyExit
    /\ Len(srch.result) = 2
    /\ srch.result[1].resolution = "2160p" /\ srch.result[1].size = 2
    /\ ~srch.result[1].isPersonal
    /\ srch.result[2].resolution = "720p" /\ srch.result[2].size = 7
    /\ srch.result[2].isPersonal

(***************************************************************************)
\* C22: when a search returns without the early exit, for every category and resolution
\* the number of results in the returned list that are not personal is at most the
\* category's limit less the combined count of personal and stored records, and at
\* least zero; the candidates added by the pass over the top non-cached candidates
\* count like the others.
C22_ResultsWithinQuota ==
    (srch.outcome = "resolved" /\ srch.gated /\ ~srch.earlyExit) =>
        \A cat \in Categories, res \in Resolutions :
            LET candidate(r) == CHOOSE t \in ExternalKinds : toLowerCase(t.InfoHash) = r.hash
                counted == {i \in DOMAIN srch.result :
                               /\ ~srch.result[i].isPersonal
                               /\ candidate(srch.result[i]).category = cat
                               /\ candidate(srch.result[i]).resolution = res}
            IN Cardinality(counted)
                   <= remainingQuota(srch.env, srch.mongoCounts, srch.personalFiles, cat, res)

(***************************************************************************)
\* The controllers whose signal a running search holds and that are not aborted.
\* This search holds controller 1 from line 249 until it settles, the other search
\* controller 2.
liveSignals ==
    {c \in {1, 2} :
        /\ c \notin aborted
        /\ \/ c = 1 /\ srch.pc \in {"personal", "counts", "scrape", "process", "topPass",
                                    "finally"}
           \/ c = 2 /\ other = "running"}

\* C23: at most one abort signal is live at any time; a search that creates its
\* controller first aborts the controller that was current, if there was one, which is
\* the signal the previous search handed to its producers; the store writes already
\* queued stay queued.
C23_OneLiveSignal ==
    [][/\ Cardinality(liveSignals') <= 1
       /\ globalAbortController' \notin {0, globalAbortController} =>
              /\ globalAbortController # 0 => globalAbortController \in aborted'
              /\ immediates' = immediates]_vars

\* The other search created its controller while this search was awaiting its
\* producers: this search's signal is aborted and the other's is the global one.
C23_Witness ==
    /\ srch.pc = "scrape"
    /\ srch.scrapers > 0
    /\ other = "running"
    /\ aborted = {1}
    /\ globalAbortController = 2

(***************************************************************************)
\* The case of C24: liveCheckHash read a terminal-success status and a listing in
\* which every entry has a path, none is junk and one is a plausible video.
confirmedCachedCase ==
    /\ lc.pc = "done"
    /\ lc.status \in {"downloaded", "finished"}
    /\ \A i \in DOMAIN lc.files :
         /\ lc.files[i].path # Undefined
         /\ ~\E ext \in JUNK_EXTENSIONS : endsWith(toLowerCase(lc.files[i].path), ext)
    /\ \E i \in DOMAIN lc.files :
         /\ \E ext \in VIDEO_EXTENSIONS : endsWith(toLowerCase(lc.files[i].path), ext)
         /\ lc.files[i].bytes > 50 * 1024 * 1024

\* The last callback queued is a write of the candidate's hash with the path and size
\* of a plausible video of the listing that no other plausible video exceeds.
writesLargestVideo ==
    /\ immediates # <<>>
    /\ LET w == immediates[Len(immediates)]
           plausible == {i \in DOMAIN lc.files :
                            /\ \E ext \in VIDEO_EXTENSIONS :
                                   endsWith(toLowerCase(lc.files[i].path), ext)
                            /\ lc.files[i].bytes > 50 * 1024 * 1024}
       IN /\ w.op = "upsertCachedMagnet"
          /\ Len(w.records) = 1
          /\ w.records[1].hash = toLowerCase(lc.hash)
          /\ \E i \in plausible :
               /\ w.records[1].fileName = lc.files[i].path
               /\ w.records[1].size = lc.files[i].bytes
               /\ \A j \in plausible : lc.files[j].bytes <= lc.files[i].bytes

\* C24 (as stated): with a terminal-success status, no junk file and a plausible video,
\* liveCheckHash returns true and schedules exactly one cache write for the hash with
\* the path and size of the largest plausible video; when it returns false it schedules
\* none.
C24_Original ==
    /\ confirmedCachedCase => (lc.ret = "true" /\ lc.writes = 1 /\ writesLargestVideo)
    /\ (lc.pc = "done" /\ lc.ret = "false") => lc.writes = 0

\* C24 (amended): in that case liveCheckHash returns true; with the store enabled, and
\* unless the persistence step itself threw, it schedules exactly one cache write for
\* the hash with the path and size of the largest plausible video; with the store
\* disabled, or when the persistence step threw, it schedules none.  When it returns
\* false it schedules none.
C24_ConfirmedCachedWrite ==
    /\ confirmedCachedCase =>
          /\ lc.ret = "true"
          /\ IF mongoEnabled /\ lc.threw # "cacheWrite"
             THEN lc.writes = 1 /\ writesLargestVideo
             ELSE lc.writes = 0
    /\ (lc.pc = "done" /\ lc.ret = "false") => lc.writes = 0

\* The listing holds a video of 50 MiB + 1 and, after it, one of 1.2 GiB: the write
\* queued carries the second.
C24_Witness ==
    /\ confirmedCachedCase
    /\ mongoEnabled
    /\ lc.ret = "true" /\ lc.writes = 1
    /\ Len(lc.files) = 2
    /\ lc.files[1].bytes = 50 * 1024 * 1024 + 1
    /\ lc.files[2].bytes = 1288490188
    /\ immediates[Len(immediates)].records[1].size = 1288490188

(***************************************************************************)
\* C25: when the add-magnet call yields no provider id (an empty response, a rejected
\* call, or the call gate throwing), liveCheckHash returns false in that same step: no
\* select-files call, no status read, and the to-delete set is left as it was.
C25_NoIdReturnsFalse ==
    [][(lc.pc = "addMagnet" /\ lc'.addResponse \in {"empty", "throws"}) =>
           /\ lc'.pc = "done"
           /\ lc'.ret = "false"
           /\ lc'.torrentId = 0
           /\ lc'.selectCalls = 0
           /\ lc'.infoCalls = 0
           /\ torrentIdsToDelete' = torrentIdsToDelete]_vars

\* The second verification got an empty add-magnet response: it returned false with
\* one provider call, and the to-delete set holds only the id of the first.
C25_Witness ==
    /\ lc.pc = "done"
    /\ lc.addResponse = "empty"
    /\ lc.ret = "false"
    /\ lc.addCalls = 1 /\ lc.selectCalls = 0 /\ lc.infoCalls = 0
    /\ lcRuns = 2
    /\ torrentIdsToDelete = {1}

(***************************************************************************)
\* C26: for each registered id the cleanup issues at most two delete calls; a second
\* call for an id is issued only while the cleanup waits after the first was rejected
\* with status 429; when a delete call or its retry has settled, failed or not, the
\* cleanup goes on with the next id (or ends), and the settled search is left as it is.
C26_OneRetryAfterRateLimit ==
    [][/\ \A k \in DOMAIN deleteLog' :
            Cardinality({i \in DOMAIN deleteLog' : deleteLog'[i] = deleteLog'[k]}) <= 2
       /\ (/\ deleteLog' # deleteLog
           /\ \E i \in DOMAIN deleteLog : deleteLog[i] = deleteLog'[Len(deleteLog')])
              => /\ cleanup.pc = "delay"
                 /\ cleanup.status = 429
                 /\ cleanup.current = deleteLog'[Len(deleteLog')]
       /\ (cleanup.pc \in {"delete", "retry"} /\ cleanup'.pc # cleanup.pc
               /\ cleanup'.pc # "delay")
              => /\ IF cleanup.rest = <<>>
                    THEN cleanup'.pc = "done"
                    ELSE /\ cleanup'.pc = "delete"
                         /\ cleanup'.current = Head(cleanup.rest)
                         /\ deleteLog' = Append(deleteLog, Head(cleanup.rest))
                 /\ srch' = srch]_vars

\* Two ids were registered: the delete of the first was rejected with 429 and retried
\* once, and the cleanup went on to the second.
C26_Witness ==
    /\ deleteLog = <<1, 1, 2>>
    /\ cleanup.pc = "delete"
    /\ cleanup.current = 2
    /\ srch.pc = "done"

(***************************************************************************)
\* C27: a store write issued by a search or a verification is queued with setImmediate
\* in the step that issues it, and the store is not called in that step; the step in
\* which a queued write runs and settles, written or failed, changes nothing of the
\* search, its verification or its cleanup, so the list the search returns is the same
\* whether the write succeeded, failed or has not run.
C27_WritesDeferredNotAwaited ==
    [][/\ Len(immediates') > Len(immediates) =>
              /\ Len(immediates') = Len(immediates) + 1
              /\ SubSeq(immediates', 1, Len(immediates)) = immediates
              /\ storeCalls' = storeCalls
              /\ applied' = applied
              /\ documents' = documents
       /\ (storeCalls' # storeCalls \/ applied' # applied) =>
              /\ srch' = srch
              /\ lc' = lc
              /\ cleanup' = cleanup
              /\ deleteLog' = deleteLog
              /\ torrentIdsToDelete' = torrentIdsToDelete]_vars

\* The search has returned two results; of the writes it queued, the first has run and
\* failed, and the others have not run yet.
C27_Witness ==
    /\ srch.pc = "done" /\ srch.outcome = "resolved"
    /\ Len(srch.result) = 2
    /\ storeCalls = 1
    /\ applied = <<>>
    /\ Len(immediates) >= 2

(***************************************************************************)
\* C28: when a search with the store enabled has gone through verification and
\* returned, every candidate of its verified results has been scheduled for an upsert
\* that carries the search's release key and the candidate's category and resolution,
\* whether or not a candidate was left unresolved after verification.
C28_VerifiedResultsScheduled ==
    (/\ srch.pc = "done" /\ srch.outcome = "resolved" /\ srch.threw = "none"
     /\ srch.gated /\ ~srch.earlyExit
     /\ mongoEnabled)
    => \A i \in DOMAIN srch.cachedResults :
           \E k \in DOMAIN immediates :
               \E n \in DOMAIN immediates[k].records :
                   LET record == immediates[k].records[n]
                       t == srch.cachedResults[i].t
                   IN /\ record.hash = toLowerCase(t.InfoHash)
                      /\ record.releaseKey = SearchReleaseKey
                      /\ record.category = t.category
                      /\ record.resolution = t.resolution

(***************************************************************************)
\* C29: in one batchCheckSeasonPacks call the provider is called for at most
\* MAX_PACKS_TO_INSPECT pack hashes, whether the pack matched, had no match or failed.
C29_AtMostMaxPacksInspected ==
    \A c \in 1..pack.calls :
        Cardinality({i \in DOMAIN pack.inspected : pack.inspected[i].call = c})
            <= MAX_PACKS_TO_INSPECT

\* C30: once the inspection of a pack hash has thrown and the hash is in the failed
\* set, no provider call is issued for that hash again during the search, neither in
\* the same batchCheckSeasonPacks call nor in a later one.
C30_FailedPackNotInspectedAgain ==
    [][Len(pack'.inspected) > Len(pack.inspected) =>
           toLowerCase(pack'.inspected[Len(pack'.inspected)].hash)
               \notin pack.failedPackHashes]_vars

(***************************************************************************)
(* combineAndMarkResults as a function of its arguments.                    *)
(***************************************************************************)
\* A second candidate with the infohash of the first candidate of ExternalKinds, in
\* lower case and from another producer.
ExternalRepack ==
    [InfoHash |-> HashAb, Title |-> "Movie.WEB.1080p.REPACK", Seeders |-> 7, Size |-> 6,
     category |-> "WEB/WEB-DL", resolution |-> "1080p"]

CombineKinds == ExternalKinds \cup {ExternalRepack}

InitCombine ==
    /\ IdleGate
    /\ IdleResolve
    /\ IdleStore
    /\ IdlePack
    /\ lc = lcIdle
    /\ lcRuns = 0
    /\ torrentIdsToDelete = {}
    /\ immediates = <<>>
    /\ mongoEnabled = FALSE
    /\ nextTorrentId = 1
    /\ added = {}
    /\ srch \in [pc : {"combine"}, personalFiles : PersonalOptions,
                 scraperResults : SeqsUpTo(CombineKinds, MaxScraped),
                 externalTorrents : {<<>>}]
    /\ scraperCalls = 0
    /\ globalAbortController = 0
    /\ aborted = {}
    /\ other = "idle"
    /\ cleanup = cleanupIdle
    /\ deleteLog = <<>>

\* Lines 405-406: combinedResults = combineAndMarkResults(...), and the candidates that
\* are not personal.
CombineAndMark ==
    /\ srch.pc = "combine"
    /\ srch' = [srch EXCEPT !.pc = "combined",
                            !.externalTorrents =
                                combineAndMarkResults(srch.personalFiles,
                                                      srch.scraperResults)]
    /\ UNCHANGED <<verifyVars, gateEval, scraperCalls, globalAbortController, cleanup,
                   deleteLog, resolveVars, storeVars, packVars, abortVars>>

SpecCombine == InitCombine /\ [][CombineAndMark]_vars

\* The index of the first candidate of the producers' output with the infohash of t,
\* compared in lower case.
firstOccurrence(scraperResults, t) ==
    CHOOSE i \in DOMAIN scraperResults :
        /\ toLowerCase(scraperResults[i].InfoHash) = toLowerCase(t.InfoHash)
        /\ \A j \in 1..(i - 1) :
               toLowerCase(scraperResults[j].InfoHash) # toLowerCase(t.InfoHash)

\* C31: after aggregation the external candidates hold at most one candidate per
\* infohash, compared case-insensitively, and the candidate kept for an infohash is the
\* first one the producers returned with it.
C31_FirstOccurrenceKept ==
    srch.pc = "combined" =>
        /\ \A i, j \in DOMAIN srch.externalTorrents :
               toLowerCase(srch.externalTorrents[i].InfoHash)
                   = toLowerCase(srch.externalTorrents[j].InfoHash) => i = j
        /\ \A i \in DOMAIN srch.externalTorrents :
               srch.externalTorrents[i]
                   = srch.scraperResults[firstOccurrence(srch.scraperResults,
                                                         srch.externalTorrents[i])]

\* C32: no external candidate whose infohash equals, case-insensitively, the hash of a
\* personal file of the search is among the candidates after aggregation, is handed to
\* liveCheckHash by verification or by the final pass, or appears in the result as a
\* non-personal entry.
C32_PersonalHashesNotExternal ==
    LET owned == personalHashesOf(srch.personalFiles)
    IN srch.pc \notin {"idle", "called"} =>
           /\ \A i \in DOMAIN srch.externalTorrents :
                  toLowerCase(srch.externalTorrents[i].InfoHash) \notin owned
           /\ \A i \in DOMAIN srch.pending :
                  toLowerCase(srch.pending[i].InfoHash) \notin owned
           /\ lc.pc # "idle" => toLowerCase(lc.hash) \notin owned
           /\ \A i \in DOMAIN srch.result :
                  ~srch.result[i].isPersonal => srch.result[i].hash \notin owned

\* A search that owns the release under the infohash of a produced candidate (given in
\* upper case by the producer) and returns the personal file next to the other candidate.
C32_Witness ==
    /\ srch.pc \notin {"idle", "called"}
    /\ \E i \in DOMAIN srch.produced :
           toLowerCase(srch.produced[i].InfoHash) \in personalHashesOf(srch.personalFiles)
    /\ srch.scrapers > 0
    /\ \E i, j \in DOMAIN srch.result :
           srch.result[i].isPersonal /\ ~srch.result[j].isPersonal

(***************************************************************************)
(* The search with more candidates left unresolved than the final pass     *)
(* takes.                                                                  *)
(***************************************************************************)
\* One Remux candidate followed by BluRay candidates, each with its own infohash and
\* its own seeder count, not in seeder order.
TopDigits == <<"1", "2", "3", "4", "5", "6", "7", "8">>
TopProduction ==
    [i \in 1..MaxTopCandidates |->
        [InfoHash |-> <<"f", TopDigits[i]>>,
         Title |-> IF i = 1 THEN "Movie.Remux.2160p" ELSE "Movie.BluRay.2160p",
         Seeders |-> (i * 3) % (MaxTopCandidates + 1), Size |-> i,
         category |-> IF i = 1 THEN "Remux" ELSE "BluRay", resolution |-> "2160p"]]

\* Searches without a personal file whose limits leave room for one Remux result at
\* most, or for none at all, so that verification leaves at least all BluRay candidates
\* unresolved: with the store disabled and every candidate produced, and with the store
\* enabled and the first two candidates produced.
InitTopPass ==
    \/ SearchStart({TRUE}, {env \in SearchEnvs : env # EnvUnset}, {2}, {<<>>},
                   {TopProduction}, {FALSE})
    \/ SearchStart({TRUE}, {env \in SearchEnvs : env # EnvUnset}, {2}, {<<>>},
                   {SubSeq(TopProduction, 1, 2)}, {TRUE})

SpecTopPass == InitTopPass /\ [][NextSearch]_vars

\* The candidates of the search that verification did not put into cachedResults
\* (line 600).
unresolvedCandidates ==
    {srch.externalTorrents[i] :
        i \in {j \in DOMAIN srch.externalTorrents :
                  \A k \in DOMAIN srch.cachedResults :
                      srch.cachedResults[k].t.InfoHash # srch.externalTorrents[j].InfoHash}}

nonPersonalResults(result) == {result[i] : i \in {j \in DOMAIN result : ~result[j].isPersonal}}

\* C33: the final pass takes at most 5 of the candidates verification left unresolved,
\* those with the most seeders; it hands them to liveCheckHash one after the other, each
\* once; a candidate that passes joins the result with isCached = false and one that
\* fails is in no result.
C33_FinalPassTopFive ==
    [][/\ (srch.pc = "process" /\ srch'.pc = "topPass") =>
              /\ Len(srch'.pending) <= 5
              /\ NoDuplicates(srch'.pending)
              /\ \A i \in DOMAIN srch'.pending : srch'.pending[i] \in unresolvedCandidates
              /\ \A t \in unresolvedCandidates :
                     \/ \E i \in DOMAIN srch'.pending : srch'.pending[i] = t
                     \/ \A i \in DOMAIN srch'.pending : srch'.pending[i].Seeders >= t.Seeders
       /\ (srch.pc = "topPass" /\ lc.pc = "idle" /\ lc'.pc # "idle") =>
              /\ srch.pending # <<>>
              /\ lc'.hash = Head(srch.pending).InfoHash
              /\ srch' = srch
       /\ (srch.pc = "topPass" /\ srch'.pc = "topPass" /\ srch' # srch) =>
              /\ lc.pc = "done" /\ lc'.pc = "idle"
              /\ srch'.pending = Tail(srch.pending)
              /\ srch'.verified = IF lc.ret = "true"
                                  THEN Append(srch.verified, Head(srch.pending))
                                  ELSE srch.verified
       /\ (srch.pc = "topPass" /\ srch'.pc = "finally" /\ srch'.threw = "none") =>
              /\ srch.pending = <<>>
              /\ nonPersonalResults(srch'.result)
                     = {formatExternal(srch.cachedResults[i].t, srch.cachedResults[i].isCached) :
                            i \in DOMAIN srch.cachedResults}
                       \cup {formatExternal(srch.verified[i], FALSE) :
                                 i \in DOMAIN srch.verified}]_vars

\* A search that verified its Remux candidate, was left with 6 unresolved candidates,
\* handed 5 of them to liveCheckHash and returned the two that passed as non-cached.
C33_Witness ==
    /\ srch.pc \notin {"idle", "called"}
    /\ srch.threw = "none"
    /\ Len(srch.externalTorrents) = MaxTopCandidates
    /\ lcRuns = 6
    /\ Len(srch.verified) = 2
    /\ Cardinality({r \in nonPersonalResults(srch.result) : ~r.isCached}) = 2
    /\ Cardinality({r \in nonPersonalResults(srch.result) : r.isCached}) = 1

\* The torrents of a listing with the given infohash, compared in lower case, in status
\* downloaded, finished or uploading.
reusableIn(listing, hash) ==
    {i \in DOMAIN listing :
        /\ toLowerCase(listing[i].hash) = hash
        /\ listing[i].status \in {"downloaded", "finished", "uploading"}}

\* C34: resolveMagnetUrl issues add-magnet at most once per call, and only when the
\* listing of the caller's torrents failed or holds no torrent of the same infohash in
\* status downloaded, finished or uploading; when it holds one, that torrent's id is
\* used and no add-magnet is issued.
C34_AddOnlyWhenNotOwned ==
    rs.pc \notin {"idle", "called", "listing"} /\ rs.listCalls > 0 =>
        /\ rs.addCalls <= 1
        /\ rs.addCalls = 1 =>
               "listing" \in rs.failed \/ reusableIn(rs.listing, rs.hash) = {}
        /\ ("listing" \notin rs.failed /\ reusableIn(rs.listing, rs.hash) # {}) =>
               /\ rs.addCalls = 0
               /\ \E i \in reusableIn(rs.listing, rs.hash) : rs.torrentId = rs.listing[i].id

\* A magnet given with its hash in upper case, resolved to a link through the caller's
\* own torrent 7, which the listing shows as uploading after another torrent.
C34_Witness ==
    /\ rs.pc = "done" /\ rs.outcome = "resolved" /\ rs.result.kind = "http"
    /\ rs.url = [kind |-> "magnet", hash |-> HashAbUpper]
    /\ Len(rs.listing) = 2 /\ reusableIn(rs.listing, rs.hash) = {2}
    /\ rs.torrentId = 7 /\ rs.addCalls = 0 /\ nextTorrentId = 1

\* The provider calls one call of the chain has issued.
providerCalls(r) ==
    r.listCalls + r.addCalls + r.selectCalls + r.infoCalls + r.unrestrictCalls

\* C35: every resolveStreamUrl and unrestrictUrl call settles, after at most 7 provider
\* calls: resolveMagnetUrl is entered at most once per call, unrestrictUrl is entered
\* at most once more after a magnet was resolved, and resolveStreamUrl takes the
\* alternative-magnet branch at most once.
C35_ChainTerminates ==
    /\ [](/\ providerCalls(rs) <= 7
          /\ rs.magnetCalls <= 1
          /\ rs.unrestrictEntries <= (IF rs.entry = "unrestrictUrl" THEN 2 ELSE 1)
          /\ rs.unrestrictEntries = 2 => rs.magnetCalls = 1 /\ rs.infoCalls >= 1
          /\ rs.alternativeCalls <= 1)
    /\ <>(rs.pc = "done")

\* unrestrictUrl given a magnet: the magnet resolved once, unrestrictUrl entered again
\* with the file reference, and the call settled with a link after 7 provider calls.
C35_Witness ==
    /\ rs.pc = "done" /\ rs.entry = "unrestrictUrl" /\ rs.url.kind = "magnet"
    /\ rs.magnetCalls = 1 /\ rs.unrestrictEntries = 2
    /\ rs.result.kind = "http" /\ providerCalls(rs) = 7

\* C36: a search that finishes sets the shared controller to null only when it is its
\* own and aborts nothing, so a superseded search leaves the controller of the newer
\* search in place; the shared controller is null or the controller of the search that
\* created its controller last and has not finished.
C36_FinishResetsOwnOnly ==
    [][/\ (srch.pc = "finally" /\ srch'.pc = "done") =>
              /\ globalAbortController' =
                     IF globalAbortController = 1 THEN 0 ELSE globalAbortController
              /\ aborted' = aborted
       /\ (other = "running" /\ other' = "done") =>
              /\ globalAbortController' =
                     IF globalAbortController = 2 THEN 0 ELSE globalAbortController
              /\ aborted' = aborted
       /\ globalAbortController' # 0 => liveSignals' = {globalAbortController'}
       /\ liveSignals' # {} => globalAbortController' \in liveSignals']_vars

\* This search was superseded by the other one and has finished; the other search is
\* still running and its controller is still the shared one.
C36_Witness ==
    /\ srch.pc = "done" /\ srch.outcome = "resolved" /\ srch.scrapers > 0
    /\ aborted = {1}
    /\ other = "running"
    /\ globalAbortController = 2

(***************************************************************************)
(* The search with pack inspection and with add-magnet calls from outside  *)
(* the search.                                                             *)
(***************************************************************************)
\* processAndFilterTorrents calls rdHandler.batchCheckSeasonPacks with two pack hashes
\* once the candidates have been verified, and awaits it.
SearchPackCall ==
    /\ srch.pc = "process" /\ lc.pc = "idle" /\ srch.pending = <<>>
    /\ pack.pc = "idle"
    /\ \E hashes \in {h \in PackHashLists : Len(h) = 2} : pack' = packBegin(pack, hashes)
    /\ UNCHANGED <<torrentIdsToDelete, nextTorrentId, added>>
    /\ packFrame

\* The provider answers an add-magnet call of a stream resolution (line 813) or of
\* another search (lines 466, 522) with a new id.
ForeignAddMagnet ==
    /\ Cardinality({a \in added : a.by # "search"}) < MaxForeignAdds
    /\ \E caller \in {"stream", "other"} :
         added' = returnedTo(added, nextTorrentId, caller)
    /\ nextTorrentId' = nextTorrentId + 1
    /\ UNCHANGED <<lc, lcRuns, torrentIdsToDelete, immediates, mongoEnabled, gateEval,
                   searchVars, resolveVars, storeVars, packVars, aborted, other>>

\* One search with the store enabled, default limits, no personal file and one
\* candidate produced.
InitOwnIds ==
    SearchStart({TRUE}, {EnvUnset}, {2}, {<<>>},
                {q \in ScraperOutputs : Len(q) = 1 /\ q[1].Seeders > 5}, {TRUE})

NextOwnIds ==
    \/ SearchCall \/ SearchMeta
    \/ SearchPersonal \/ SearchCounts \/ SearchScrape
    \/ ProcessStart \/ ProcessCollect \/ ProcessThrows \/ ProcessFinish
    \/ TopStart \/ TopCollect \/ TopFinish
    \/ SearchAddMagnet \/ SearchSelectFiles \/ SearchInfo
    \/ SearchFinally \/ CleanupDelete \/ CleanupRetry \/ CleanupRetryDone
    \/ SearchPackCall \/ PackNext \/ PackListing \/ PackAddMagnet \/ PackSelectFiles
    \/ PacksInfo \/ ForeignAddMagnet

SpecOwnIds == InitOwnIds /\ [][NextOwnIds]_vars

\* The ids for which the cleanup has called the provider's delete.
deletedIds == {deleteLog[i] : i \in DOMAIN deleteLog}

\* C37: every id the search's cleanup passes to the provider's delete, and every id
\* registered for deletion, was returned to an add-magnet call of this search; the id
\* of a torrent the account held already, which pack inspection reused, is neither
\* registered nor deleted, and neither is an id returned to a stream resolution or to
\* another search.
C37_DeletesOwnAddsOnly ==
    /\ \A id \in deletedIds \cup torrentIdsToDelete : [id |-> id, by |-> "search"] \in added
    /\ ExistingTorrentId \notin deletedIds \cup torrentIdsToDelete
    /\ \A a \in added : a.by # "search" => a.id \notin deletedIds \cup torrentIdsToDelete

\* A search whose pack inspection reused the account's torrent for one pack and added
\* the other, while an id was returned to a caller outside the search: the cleanup has
\* deleted two ids of the search.
C37_Witness ==
    /\ srch.pc = "done" /\ cleanup.pc = "done" /\ Cardinality(deletedIds) >= 2
    /\ pack.pc = "done" /\ Len(pack.inspected) = 2
    /\ \E h \in DOMAIN pack.packResults :
           pack.packResults[h].episodeFileHint.torrentId = ExistingTorrentId
    /\ \E a \in added : a.by = "search" /\ a.id \in deletedIds
    /\ \E a \in added : a.by # "search"

\* The total getReleaseCounts gives for a release key over a collection.
totalOf(docs, service, releaseKey) ==
    countDocuments(find(docs, service, releaseKey), emptyCounts).total

\* C38: when the server applies an upsert whose record carries no releaseKey, category
\* or resolution to a stored document of the same (service, hash) that has a release
\* key, the document stays in the collection with releaseKey, category and resolution
\* null, and the total of getReleaseCounts for its former release key is one less,
\* though no document was removed.
C38_HashOnlyWriteClearsRelease ==
    [][\A d \in documents :
         (/\ d.releaseKey # <<>>
          /\ Len(applied') = Len(applied) + 1
          /\ LET written == applied'[Len(applied')].input
             IN /\ normalizeKey(written.service) = d.service
                /\ normalizeKey(written.hash) = d.hash
                /\ written.releaseKey = <<>>
                /\ written.category = "" /\ written.resolution = "")
         => /\ \E e \in documents' :
                  /\ {f \in documents' : matches(f, d)} = {e}
                  /\ e.createdAt = d.createdAt
                  /\ e.releaseKey = <<>> /\ e.category = "null" /\ e.resolution = "null"
            /\ Cardinality(documents') = Cardinality(documents)
            /\ totalOf(documents', d.service, d.releaseKey)
                   = totalOf(documents, d.service, d.releaseKey) - 1]_vars

\* The record of hash ab, stored 29 days before as Remux 2160p of the release tt1 with
\* two others, has taken a hash-only write; nothing has expired, and the counts read
\* afterwards for tt1 give 2 where the collection held 3.
C38_Witness ==
    /\ Cardinality(documents) = 3
    /\ \E d \in documents :
           /\ d.hash = HashAb /\ d.createdAt = -29 /\ d.updatedAt > 0
           /\ d.releaseKey = <<>> /\ d.category = "null" /\ d.resolution = "null"
    /\ Len(applied) = 1 /\ applied[1].input.releaseKey = <<>>
    /\ reader.kind = "counts" /\ reader.pc = "done" /\ reader.answered
    /\ reader.releaseKey = ReleaseKeyTt1 /\ reader.evalDocs = documents
    /\ reader.ret.total = 2

(***************************************************************************)
(* SpecRepeat: searches for the same release one after the other, with the *)
(* store enabled.  The upserts a search defers are written to the          *)
(* collection by upsertCachedMagnets, and the next search reads its counts *)
(* from the collection.  No producer is enabled.                           *)
(***************************************************************************)
\* mongoCounts.byCategoryResolution as lines 305-315 read it: a key that is missing
\* counts 0.
countsRead(counts) ==
    LET nested == counts.byCategoryResolution
    IN [cat \in Categories |->
           [res \in Resolutions |->
               IF cat \in DOMAIN nested
               THEN IF res \in DOMAIN nested[cat] THEN nested[cat][res] ELSE 0
               ELSE 0]]

\* await mongoCache.getReleaseCounts('realdebrid', releaseKey) (lines 298-302).  The
\* read awaits the store's one initialization, which it starts when no operation has.
\* Once that has settled: a rejected initialization or a failed query leaves the empty
\* default, otherwise the counts are those of the collection as it is.
SearchCountsStored ==
    /\ srch.pc = "counts"
    /\ initPromise # "pending"
    /\ LET me == [readerIdle EXCEPT !.kind = "counts", !.service = REALDEBRID,
                                    !.releaseKey = SearchReleaseKey, !.calledAt = clock]
           answer == countDocuments(find(documents, REALDEBRID, SearchReleaseKey),
                                    emptyCounts)
       IN CASE initPromise = "null" ->
                 /\ initPromise' = initMongo(initPromise)
                 /\ mongo' = getCollectionCalled(mongo, initPromise)
                 /\ reader' = [me EXCEPT !.pc = "getCollection"]
                 /\ UNCHANGED <<srch, immediates, scraperCalls, queries>>
            [] initPromise = "rejected" ->
                 /\ reader' = readReturned(me, Rejected)
                 /\ SearchGate(srch.personalFiles, NoCounts)
                 /\ queries' = queries + 1
                 /\ UNCHANGED <<initPromise, mongo>>
            [] initPromise = "fulfilled" ->
                 /\ \/ /\ reader' = readReturned([me EXCEPT !.answered = TRUE,
                                                            !.evalDocs = documents],
                                                 answer)
                       /\ SearchGate(srch.personalFiles, countsRead(answer))
                    \/ /\ reader' = readReturned(me, emptyCounts)
                       /\ SearchGate(srch.personalFiles, countsRead(emptyCounts))
                 /\ queries' = queries + 1
                 /\ UNCHANGED <<initPromise, mongo>>
    /\ UNCHANGED <<lc, lcRuns, torrentIdsToDelete, mongoEnabled, nextTorrentId, added,
                   gateEval, resolveVars, globalAbortController, cleanup, deleteLog,
                   documents, writers, applied, storeCalls, clock, packVars, abortVars>>

\* The event loop runs the oldest callback queued by deferMongoUpserts:
\* mongoCache.upsertCachedMagnets(payloads) is called.
RunImmediateStore ==
    /\ immediates # <<>>
    /\ immediates' = Tail(immediates)
    /\ storeCalls' = storeCalls + 1
    /\ \E w \in Writers :
         /\ mayCall(w)
         /\ writers' = [writers EXCEPT ![w] = storeBegin("many", Head(immediates).records)]
    /\ initPromise' = IF isEnabled THEN initMongo(initPromise) ELSE initPromise
    /\ mongo' = getCollectionCalled(mongo, initPromise)
    /\ UNCHANGED <<lc, lcRuns, torrentIdsToDelete, mongoEnabled, nextTorrentId, added,
                   gateEval, searchVars, resolveVars, packVars, abortVars, documents,
                   applied, clock, queryVars>>

\* searchRealDebridTorrents is called again for the same release, on the same account
\* and in the same environment, after the search before it has settled.
SearchAgain ==
    /\ srch.pc = "done" /\ cleanup.pc \in {"idle", "done"}
    /\ queries < MaxSearches
    /\ srch' = [srch EXCEPT !.pc = "called", !.outcome = "pending", !.result = <<>>,
                            !.threw = "none", !.personalFiles = <<>>,
                            !.mongoCounts = NoCounts, !.gated = FALSE, !.gate = FALSE,
                            !.earlyExit = FALSE, !.externalTorrents = <<>>,
                            !.cachedResults = <<>>, !.verified = <<>>, !.pending = <<>>]
    /\ cleanup' = cleanupIdle
    /\ UNCHANGED <<verifyVars, gateEval, resolveVars, scraperCalls, globalAbortController,
                   deleteLog, storeVars, packVars, abortVars>>

\* The account holds one file of the release or the two Remux files; the limits are the
\* defaults, or Remux 1 with the other high-quality categories switched off (then the
\* two Remux files take the early exit).
InitRepeat ==
    SearchStart({TRUE}, {env \in SearchEnvs : env.MAX_RESULTS_PER_QUALITY = <<>>}, {0},
                {<<PersonalRemux2160>>, <<PersonalRemux2160, PersonalRemux1080>>},
                {<<>>}, {TRUE})

NextRepeat ==
    \/ SearchCall \/ SearchMeta \/ SearchPersonal \/ SearchCountsStored \/ SearchScrape
    \/ ProcessFinish \/ SearchFinally \/ SearchAgain
    \/ RunImmediateStore \/ InitMongoSettles \/ StoreSend
    \/ ServerMatch \/ ServerInsert \/ StoreReturn

SpecRepeat == InitRepeat /\ [][NextRepeat]_vars

\* The documents of the release in a collection that have the category and resolution.
storedOf(docs, cat, res) ==
    {d \in docs : /\ d.service = REALDEBRID /\ d.releaseKey = SearchReleaseKey
                  /\ d.category = cat /\ d.resolution = res}

\* C39: the combined count a search uses for a category and resolution is the number
\* of its personal files of that kind plus the number of the store's records of the
\* release of that kind, as the search read them, and the quota left for the processor
\* is the limit less that sum; nothing is taken off for a personal file whose hash is
\* also a stored record, so such a file is counted twice.
C39_CombinedCountsArePlainSum ==
    (srch.gated /\ reader.pc = "done") =>
        LET personal(cat, res) ==
                Cardinality({i \in DOMAIN srch.personalFiles :
                                /\ srch.personalFiles[i].category = cat
                                /\ srch.personalFiles[i].resolution = res})
            stored(cat, res) ==
                IF reader.answered
                THEN Cardinality(storedOf(reader.evalDocs, cat, res)) ELSE 0
            limits == rdQualityLimits(srch.env)
        IN /\ \A cat \in Categories, res \in Resolutions :
                 LET plainSum == personal(cat, res) + stored(cat, res)
                 IN remainingQuota(srch.env, srch.mongoCounts, srch.personalFiles,
                                   cat, res)
                        = IF limits[cat] - plainSum > 0 THEN limits[cat] - plainSum ELSE 0
           /\ \A i \in DOMAIN srch.personalFiles :
                 LET file == srch.personalFiles[i]
                 IN (/\ reader.answered
                     /\ \E d \in storedOf(reader.evalDocs, file.category, file.resolution) :
                            d.hash = toLowerCase(file.hash))
                    => combinedByCategoryResolution(
                           srch.mongoCounts,
                           personalByCategoryResolution(srch.personalFiles))
                               [file.category][file.resolution] >= 2

\* The second search of an account that holds the one Remux 2160p file, under the
\* default limit of 2: the first search has written the file to the store, the second
\* read it back, and the quota left for Remux 2160p is 0.
C39_Witness ==
    /\ queries = 2 /\ srch.gated /\ srch.personalFiles = <<PersonalRemux2160>>
    /\ srch.env = EnvUnset
    /\ reader.pc = "done" /\ reader.answered
    /\ \E d \in reader.evalDocs :
           /\ d.hash = PersonalRemux2160.hash /\ d.releaseKey = SearchReleaseKey
           /\ d.category = "Remux" /\ d.resolution = "2160p"
    /\ Len(applied) >= 1
    /\ srch.mongoCounts["Remux"]["2160p"] = 1
    /\ remainingQuota(srch.env, srch.mongoCounts, srch.personalFiles, "Remux", "2160p") = 0

(***************************************************************************)
(* SpecInit: the initialization of mongo-cache.js step by step, with       *)
(* initMongo called by the operations and directly (it is exported), and   *)
(* closeMongo called between the operations.                               *)
(***************************************************************************)
\* mongoCache.initMongo() called by the application: null with the store disabled, the
\* promise of the one initialization otherwise, which the call starts when there is
\* none.
InitMongoCall ==
    /\ isEnabled
    /\ initPromise' = initMongo(initPromise)
    /\ mongo' = startInit(mongo, initPromise)
    /\ UNCHANGED <<documents, writers, applied, storeCalls, clock, queryVars, nonStoreVars>>

\* await import('mongodb') settled: client = new MongoClient(...); await client.connect().
\* The initialization goes on whether initPromise still holds its promise or closeMongo
\* has reset it meanwhile.
InitConnects ==
    /\ \/ /\ mongo.phase = "import"
          /\ mongo' = [mongo EXCEPT !.phase = "connect", !.opened = @ + 1]
       \/ /\ mongo.dropped > 0
          /\ mongo' = [mongo EXCEPT !.dropped = @ - 1, !.opened = @ + 1]
    /\ UNCHANGED <<documents, initPromise, writers, applied, storeCalls, clock, queryVars,
                   nonStoreVars>>

\* closeMongo() up to its await: try { await client?.close(); } catch (_) {}.  The calls
\* are made while no operation is suspended in getCollection.
CloseMongoCall ==
    /\ ~mongo.closing /\ mongo.closes < MaxCloses
    /\ \A w \in Writers : writers[w].pc # "getCollection"
    /\ mongo' = [mongo EXCEPT !.closing = TRUE, !.closes = @ + 1]
    /\ UNCHANGED <<documents, initPromise, writers, applied, storeCalls, clock, queryVars,
                   nonStoreVars>>

\* client = null; db = null; col = null; initPromise = null;
closeMongo(m) ==
    [m EXCEPT !.closing = FALSE, !.phase = "none", !.opened = 0,
              !.dropped = IF m.phase = "import" THEN @ + 1 ELSE @]

\* The await of closeMongo settled: the module variables are reset.
CloseMongoReset ==
    /\ mongo.closing
    /\ \A w \in Writers : writers[w].pc # "getCollection"
    /\ initPromise' = "null"
    /\ mongo' = closeMongo(mongo)
    /\ UNCHANGED <<documents, writers, applied, storeCalls, clock, queryVars, nonStoreVars>>

NextInit ==
    \/ InitMongoCall \/ InitConnects \/ InitMongoSettles \/ CloseMongoCall \/ CloseMongoReset
    \/ UpsertCachedMagnet \/ StoreSend \/ ServerMatch \/ ServerInsert \/ StoreReturn

SpecInit == InitStore /\ [][NextInit]_vars

====
